---- MODULE Spec2Model ----
(***************************************************************************)
(* wt: a git worktree manager.  The model covers the persisted catalog     *)
(* (internal/db), the reconciler and the workflows (cmd) and the           *)
(* interactive picker (internal/ui).                                       *)
(*                                                                         *)
(* Strings on which the code works character by character (paths, branch   *)
(* names, picker labels, the query) are sequences of one-character         *)
(* strings.  A timestamp is abstracted to its age relative to the running  *)
(* invocation: "past" (NULL, or set by an earlier invocation) or "now"     *)
(* (CURRENT_TIMESTAMP of the running one); deleted_at is kept as the       *)
(* boolean deleted_at IS NOT NULL.                                         *)
(***************************************************************************)
EXTENDS Integers, Sequences, FiniteSets, TLC

(* ------------------------------------------------------------------ *)
(* Strings                                                              *)
(* ------------------------------------------------------------------ *)
Slash == "/"

RECURSIVE LastIndex(_, _)
\* strings.LastIndex for a single character; 0 when absent
LastIndex(s, c) ==
  IF s = <<>> THEN 0
  ELSE IF s[Len(s)] = c THEN Len(s)
  ELSE LastIndex(SubSeq(s, 1, Len(s) - 1), c)

\* filepath.Base on a clean absolute path
Base(p) == SubSeq(p, LastIndex(p, Slash) + 1, Len(p))

\* filepath.Dir on a clean absolute path
Dir(p) ==
  LET i == LastIndex(p, Slash)
  IN  IF i <= 1 THEN <<Slash>> ELSE SubSeq(p, 1, i - 1)

\* filepath.Join of two clean elements
Join(a, b) == IF a = <<Slash>> THEN a \o b ELSE a \o <<Slash>> \o b

GetRepoName(repoPath) == Base(repoPath)

GetDefaultWorktreesDir(repoPath) ==
  Join(Dir(repoPath),
       GetRepoName(repoPath) \o <<".", "w", "o", "r", "k", "t", "r", "e", "e", "s">>)

RECURSIVE ReplaceAll(_, _, _)
\* strings.ReplaceAll for single characters
ReplaceAll(s, old, new) ==
  IF s = <<>> THEN <<>>
  ELSE <<(IF Head(s) = old THEN new ELSE Head(s))>> \o ReplaceAll(Tail(s), old, new)

(* ------------------------------------------------------------------ *)
(* The world outside the program                                        *)
(* ------------------------------------------------------------------ *)
\* repository /a has an ordinary main worktree; repository /b is bare, its git
\* directory kept inside /b (git rev-parse --git-common-dir names a child of
\* /b), so that /b is what GetMainRepoPath returns for its worktrees
RepoA == <<"/", "a">>
RepoB == <<"/", "b">>
RepoPaths == {RepoA, RepoB}
BareRepos == {RepoB}

\* branch names
BrMain == <<"m">>
BrX == <<"f", "/", "x">>
BrY == <<"y">>
Detached == <<"(", "d", "e", "t", "a", "c", "h", "e", "d", ")">>

\* a variant that uses the branch name as it is
TargetPathOfBranch(repoPath, branch) == Join(GetDefaultWorktreesDir(repoPath), branch)

TargetPath(repoPath, branch) ==
  Join(GetDefaultWorktreesDir(repoPath), ReplaceAll(branch, Slash, "-"))

\* the places where linked worktrees live
LinkedPaths == {TargetPath(r, BrX) : r \in RepoPaths}

\* where users put linked worktrees: those of /a in its worktrees directory,
\* those of /b in either one
Placements == {<<r, p>> \in RepoPaths \X LinkedPaths : r = RepoB \/ p = TargetPath(r, BrX)}

\* the branch of a linked worktree: the one wt add creates there, or another one
LinkedBranch(r, p) == IF p = TargetPath(r, BrX) THEN BrX ELSE BrY

(* ------------------------------------------------------------------ *)
(* Catalog: the two tables.  A table is the sequence of its rows in     *)
(* rowid order; a row's id is its index (INTEGER PRIMARY KEY, never     *)
(* physically deleted).                                                 *)
(* ------------------------------------------------------------------ *)
Past == "past"
Now == "now"

\* byte order of the characters that occur (BINARY collation)
Ascii ==
  <<"(", ")", "-", ".", "/", "[", "]", "a", "b", "c", "d", "e", "f", "h", "i",
    "k", "m", "n", "o", "r", "s", "t", "w", "x", "y">>

CharRank(c) == CHOOSE i \in 1..Len(Ascii) : Ascii[i] = c

RECURSIVE StrLess(_, _)
StrLess(a, b) ==
  IF b = <<>> THEN FALSE
  ELSE IF a = <<>> THEN TRUE
  ELSE IF Head(a) = Head(b) THEN StrLess(Tail(a), Tail(b))
  ELSE CharRank(Head(a)) < CharRank(Head(b))

Range(s) == {s[i] : i \in 1..Len(s)}

RowIds(T) == 1..Len(T)

IdsByPath(T, path) == {i \in RowIds(T) : T[i].path = path}

\* INSERT ... ON CONFLICT(path) DO UPDATE ... deleted_at = NULL
UpsertRepo(R, path, name, worktrees_dir, last_synced_at) ==
  LET row == [path |-> path, name |-> name, worktrees_dir |-> worktrees_dir,
              last_synced_at |-> last_synced_at, deleted |-> FALSE]
  IN  IF IdsByPath(R, path) = {} THEN Append(R, row)
      ELSE [R EXCEPT ![CHOOSE i \in IdsByPath(R, path) : TRUE] = row]

RepoStruct(R, i) ==
  [ID |-> i, Path |-> R[i].path, Name |-> R[i].name,
   WorktreesDir |-> R[i].worktrees_dir, LastSyncedAt |-> R[i].last_synced_at,
   Deleted |-> R[i].deleted]

\* the set of rows found (empty: sql.ErrNoRows, the nil result)
GetRepoByPath(R, path) ==
  {RepoStruct(R, i) : i \in {j \in RowIds(R) : R[j].path = path /\ ~R[j].deleted}}

RepoLess(a, b) == StrLess(a.Name, b.Name) \/ (a.Name = b.Name /\ a.ID < b.ID)

\* WHERE deleted_at IS NULL ORDER BY name
ListRepos(R) ==
  SortSeq(SelectSeq([i \in RowIds(R) |-> RepoStruct(R, i)], LAMBDA r : ~r.Deleted),
          RepoLess)

SoftDeleteRepo(R, id) ==
  [i \in RowIds(R) |-> IF i = id THEN [R[i] EXCEPT !.deleted = TRUE] ELSE R[i]]

\* a variant that writes nothing
KeepLastSynced(R, id) == R

UpdateLastSynced(R, id) ==
  [i \in RowIds(R) |-> IF i = id THEN [R[i] EXCEPT !.last_synced_at = Now] ELSE R[i]]

\* a variant without the ON CONFLICT clause on a table without the UNIQUE constraint
InsertWorktree(W, repo_id, path, branch, is_main) ==
  Append(W, [repo_id |-> repo_id, path |-> path, branch |-> branch,
             is_main |-> is_main, deleted |-> FALSE])

\* a variant that leaves the owning repository of a conflicting row as it is
UpsertWorktreeKeepsOwner(W, repo_id, path, branch, is_main) ==
  IF IdsByPath(W, path) = {}
  THEN Append(W, [repo_id |-> repo_id, path |-> path, branch |-> branch,
                  is_main |-> is_main, deleted |-> FALSE])
  ELSE [i \in RowIds(W) |->
          IF W[i].path = path
          THEN [W[i] EXCEPT !.branch = branch, !.is_main = is_main, !.deleted = FALSE]
          ELSE W[i]]

\* INSERT ... ON CONFLICT(path) DO UPDATE SET repo_id, branch, is_main, deleted_at = NULL
UpsertWorktree(W, repo_id, path, branch, is_main) ==
  LET row == [repo_id |-> repo_id, path |-> path, branch |-> branch,
              is_main |-> is_main, deleted |-> FALSE]
  IN  IF IdsByPath(W, path) = {} THEN Append(W, row)
      ELSE [W EXCEPT ![CHOOSE i \in IdsByPath(W, path) : TRUE] = row]

\* a worktree row joined with its repository (JOIN repos r ON w.repo_id = r.id)
WorktreeStruct(W, R, i) ==
  [ID |-> i, RepoID |-> W[i].repo_id, Path |-> W[i].path, Branch |-> W[i].branch,
   IsMain |-> W[i].is_main, Deleted |-> W[i].deleted,
   RepoName |-> R[W[i].repo_id].name, RepoPath |-> R[W[i].repo_id].path]

Joined(W, R) == [i \in RowIds(W) |-> WorktreeStruct(W, R, i)]

\* a variant without the test on the row's tombstone
GetWorktreeByPathAnyRow(W, R, path) ==
  {WorktreeStruct(W, R, i) : i \in {j \in RowIds(W) : W[j].path = path}}

\* WHERE w.path = ? AND w.deleted_at IS NULL
GetWorktreeByPath(W, R, path) ==
  {WorktreeStruct(W, R, i) : i \in {j \in RowIds(W) : W[j].path = path /\ ~W[j].deleted}}

\* ORDER BY w.is_main DESC, w.branch
WorktreeLess(a, b) ==
  IF a.IsMain # b.IsMain THEN a.IsMain
  ELSE IF a.Branch # b.Branch THEN StrLess(a.Branch, b.Branch)
  ELSE a.ID < b.ID

\* WHERE w.repo_id = ? AND w.deleted_at IS NULL ORDER BY w.is_main DESC, w.branch
ListWorktreesByRepo(W, R, repoID) ==
  SortSeq(SelectSeq(Joined(W, R), LAMBDA w : w.RepoID = repoID /\ ~w.Deleted),
          WorktreeLess)

\* a variant without the condition on the repository
LiveWorktrees(W, R) ==
  SelectSeq(Joined(W, R), LAMBDA w : ~w.Deleted)

\* WHERE w.deleted_at IS NULL AND r.deleted_at IS NULL
VisibleWorktrees(W, R) ==
  SelectSeq(Joined(W, R), LAMBDA w : ~w.Deleted /\ ~R[w.RepoID].deleted)

\* a variant that does not order by the repository's name
ListAllLessNoName(a, b) == WorktreeLess(a, b)

\* ORDER BY r.name, w.is_main DESC, w.branch
ListAllLess(a, b) ==
  IF a.RepoName # b.RepoName THEN StrLess(a.RepoName, b.RepoName)
  ELSE WorktreeLess(a, b)

ListAllWorktrees(W, R) == SortSeq(VisibleWorktrees(W, R), ListAllLess)

\* a variant that orders as ListAllWorktrees does, whatever the named repository
NamedRepoIgnoredLess(currentRepoPath, a, b) == ListAllLess(a, b)

\* ORDER BY CASE WHEN r.path = ? THEN 0 ELSE 1 END, r.name, w.is_main DESC, w.branch
RepoFirstLess(currentRepoPath, a, b) ==
  LET ka == IF a.RepoPath = currentRepoPath THEN 0 ELSE 1
      kb == IF b.RepoPath = currentRepoPath THEN 0 ELSE 1
  IN  IF ka # kb THEN ka < kb ELSE ListAllLess(a, b)

ListAllWorktreesWithRepoFirst(W, R, currentRepoPath) ==
  SortSeq(VisibleWorktrees(W, R), LAMBDA a, b : RepoFirstLess(currentRepoPath, a, b))

\* a variant that deletes the row and inserts its tombstoned copy anew
SoftDeleteWorktreeReinserted(W, id) ==
  [k \in RowIds(W) |->
     IF id \notin RowIds(W) \/ k < id THEN W[k]
     ELSE IF k < Len(W) THEN W[k + 1]
     ELSE [W[id] EXCEPT !.deleted = TRUE]]

\* UPDATE worktrees SET deleted_at = CURRENT_TIMESTAMP WHERE id = ?
SoftDeleteWorktree(W, id) ==
  [i \in RowIds(W) |-> IF i = id THEN [W[i] EXCEPT !.deleted = TRUE] ELSE W[i]]

\* UPDATE worktrees SET deleted_at = CURRENT_TIMESTAMP WHERE path = ?
SoftDeleteWorktreeByPath(W, path) ==
  [i \in RowIds(W) |-> IF W[i].path = path THEN [W[i] EXCEPT !.deleted = TRUE] ELSE W[i]]

\* a variant that does nothing for an empty list of paths
MissingIdsOfListed(W, repoID, existingPaths) ==
  {i \in RowIds(W) : /\ Len(existingPaths) > 0
                      /\ W[i].repo_id = repoID
                      /\ ~W[i].deleted
                      /\ W[i].path \notin Range(existingPaths)}

\* the rows the UPDATE of SoftDeleteMissingWorktrees matches
MissingIds(W, repoID, existingPaths) ==
  IF Len(existingPaths) = 0
  THEN {i \in RowIds(W) : W[i].repo_id = repoID /\ ~W[i].deleted}
  ELSE {i \in RowIds(W) : /\ W[i].repo_id = repoID
                          /\ ~W[i].deleted
                          /\ W[i].path \notin Range(existingPaths)}

\* a variant that also clears the tombstones of the listed paths
SoftDeleteMissingReviveListed(W, repoID, existingPaths) ==
  [i \in RowIds(W) |->
     IF i \in MissingIds(W, repoID, existingPaths) THEN [W[i] EXCEPT !.deleted = TRUE]
     ELSE IF W[i].repo_id = repoID /\ W[i].path \in Range(existingPaths)
     THEN [W[i] EXCEPT !.deleted = FALSE]
     ELSE W[i]]

\* a variant whose UPDATE does not look at repo_id
SoftDeleteMissingOfAnyRepo(W, repoID, existingPaths) ==
  [i \in RowIds(W) |->
     IF ~W[i].deleted /\ W[i].path \notin Range(existingPaths)
     THEN [W[i] EXCEPT !.deleted = TRUE] ELSE W[i]]

SoftDeleteMissingWorktrees(W, repoID, existingPaths) ==
  [i \in RowIds(W) |->
     IF i \in MissingIds(W, repoID, existingPaths)
     THEN [W[i] EXCEPT !.deleted = TRUE] ELSE W[i]]

(* ------------------------------------------------------------------ *)
(* git: the porcelain listing and its parser                            *)
(* ------------------------------------------------------------------ *)
RefsHeads == <<"r", "e", "f", "s", "/", "h", "e", "a", "d", "s", "/">>

\* strings.TrimPrefix
TrimPrefix(s, prefix) ==
  IF Len(s) >= Len(prefix) /\ SubSeq(s, 1, Len(prefix)) = prefix
  THEN SubSeq(s, Len(prefix) + 1, Len(s)) ELSE s

\* the records git prints for one worktree, as lines <<keyword, argument>>
PorcelainEntry(path, kind, branch) ==
  <<<<"worktree", path>>>> \o
  (CASE kind = "bare" -> <<<<"bare", <<>>>>>>
     [] kind = "detached" -> <<<<"HEAD", <<>>>>, <<"detached", <<>>>>>>
     [] OTHER -> <<<<"HEAD", <<>>>>, <<"branch", RefsHeads \o branch>>>>) \o
  <<<<"", <<>>>>>>

RECURSIVE PorcelainLinked(_)
PorcelainLinked(linked) ==
  IF linked = <<>> THEN <<>>
  ELSE PorcelainEntry(Head(linked).path,
                      IF Head(linked).branch = Detached THEN "detached" ELSE "branch",
                      Head(linked).branch) \o PorcelainLinked(Tail(linked))

\* git worktree list --porcelain, run in repository repoPath whose linked
\* worktrees are `linked`: the main (or bare) entry first
Porcelain(repoPath, linked) ==
  PorcelainEntry(repoPath, IF repoPath \in BareRepos THEN "bare" ELSE "branch", BrMain)
    \o PorcelainLinked(linked)

NoInfo == [Path |-> <<>>, Branch |-> <<>>, IsMain |-> FALSE]

\* a variant that does not skip the bare entry
ParseLineKeepsBare(st, line) ==
  CASE line[1] = "worktree" ->
         [worktrees |-> IF st.current.Path # <<>>
                        THEN Append(st.worktrees, st.current) ELSE st.worktrees,
          current |-> [NoInfo EXCEPT !.Path = line[2]]]
    [] line[1] = "branch" ->
         [st EXCEPT !.current.Branch = TrimPrefix(line[2], RefsHeads)]
    [] line[1] = "detached" -> [st EXCEPT !.current.Branch = Detached]
    [] line[1] = "" ->
         IF st.current.Path # <<>>
         THEN [worktrees |-> Append(st.worktrees, st.current), current |-> NoInfo]
         ELSE st
    [] OTHER -> st

\* one pass of the scanner loop of parseWorktreeList
ParseLine(st, line) ==
  CASE line[1] = "worktree" ->
         [worktrees |-> IF st.current.Path # <<>>
                        THEN Append(st.worktrees, st.current) ELSE st.worktrees,
          current |-> [NoInfo EXCEPT !.Path = line[2]]]
    [] line[1] = "branch" ->
         [st EXCEPT !.current.Branch = TrimPrefix(line[2], RefsHeads)]
    [] line[1] = "bare" -> [st EXCEPT !.current.Path = <<>>]
    [] line[1] = "detached" -> [st EXCEPT !.current.Branch = Detached]
    [] line[1] = "" ->
         IF st.current.Path # <<>>
         THEN [worktrees |-> Append(st.worktrees, st.current), current |-> NoInfo]
         ELSE st
    [] OTHER -> st

RECURSIVE ParseLines(_, _)
ParseLines(st, lines) ==
  IF lines = <<>> THEN st ELSE ParseLines(ParseLine(st, Head(lines)), Tail(lines))

\* the first worktree of the result is marked as the main one
MarkMain(worktrees) ==
  [i \in 1..Len(worktrees) |->
     IF i = 1 THEN [worktrees[i] EXCEPT !.IsMain = TRUE] ELSE worktrees[i]]

parseWorktreeList(output) ==
  LET st == ParseLines([worktrees |-> <<>>, current |-> NoInfo], output)
      all == IF st.current.Path # <<>>
             THEN Append(st.worktrees, st.current) ELSE st.worktrees
  IN  MarkMain(all)

(* ------------------------------------------------------------------ *)
(* github.com/sahilm/fuzzy, as called by the picker                     *)
(* ------------------------------------------------------------------ *)
firstCharMatchBonus == 10
matchFollowingSeparatorBonus == 20
camelCaseMatchBonus == 20
adjacentMatchBonus == 5
unmatchedLeadingCharPenalty == -5
maxUnmatchedLeadingCharPenalty == -15

UpperCase == {"A", "X"}
ToLower(c) == CASE c = "A" -> "a" [] c = "X" -> "x" [] OTHER -> c
IsUpper(c) == c \in UpperCase
IsLower(c) == c \in {"a", "b", "c", "d", "e", "f", "h", "i", "k", "m", "n", "o",
                     "r", "s", "t", "w", "x", "y", "z"}
IsSeparator(c) == c \in {"/", "-", "_", " ", ".", "\\"}
equalFold(a, b) == a = b \/ ToLower(a) = ToLower(b)

Max(a, b) == IF a > b THEN a ELSE b
Min(a, b) == IF a < b THEN a ELSE b

adjacentCharBonus(i, lastMatch, currentBonus) ==
  IF lastMatch = i THEN currentBonus * 2 + adjacentMatchBonus ELSE 0

\* the state of the inner loop of fuzzy.FindFrom over one candidate string;
\* j, lastIndex and the matched indexes are Go (0-based) positions, NoChar is rune 0
NoChar == "\\0"

MatchStart ==
  [score |-> 0, patternIndex |-> 0, bestScore |-> -1, matchedIndex |-> -1,
   currAdjacentMatchBonus |-> 0, last |-> NoChar, lastIndex |-> 0,
   MatchedIndexes |-> <<>>, Score |-> 0]

\* the end of a pass: the best score is applied when the next match is coming
\* up or the string has ended
ApplyBest(st, str, j, bonus, score, bestScore, matchedIndex, apply) ==
  [score |-> IF apply THEN 0 ELSE score,
   patternIndex |-> IF apply THEN st.patternIndex + 1 ELSE st.patternIndex,
   bestScore |-> IF apply THEN -1 ELSE bestScore,
   matchedIndex |-> matchedIndex,
   currAdjacentMatchBonus |-> st.currAdjacentMatchBonus + bonus,
   last |-> str[j + 1], lastIndex |-> j,
   MatchedIndexes |-> IF apply THEN Append(st.MatchedIndexes, matchedIndex)
                      ELSE st.MatchedIndexes,
   Score |-> IF ~apply THEN st.Score
             ELSE IF Len(st.MatchedIndexes) = 0
             THEN st.Score + bestScore + Max(matchedIndex * unmatchedLeadingCharPenalty,
                                             maxUnmatchedLeadingCharPenalty)
             ELSE st.Score + bestScore]

\* the next characters of the pattern and of the string are compared
LookAhead(st, runes, str, j, bonus, score, bestScore, matchedIndex, nextp, nextc) ==
  ApplyBest(st, str, j, bonus, score, bestScore, matchedIndex,
            (equalFold(nextp, nextc) \/ nextc = NoChar) /\ matchedIndex > -1)

\* the score of the pass is kept if it is the best one
KeepBest(st, runes, str, j, hit, bonus, score) ==
  LookAhead(st, runes, str, j, bonus, score,
            IF hit /\ score > st.bestScore THEN score ELSE st.bestScore,
            IF hit /\ score > st.bestScore THEN j ELSE st.matchedIndex,
            IF st.patternIndex < Len(runes) - 1 THEN runes[st.patternIndex + 2] ELSE NoChar,
            IF j + 1 < Len(str) THEN str[j + 2] ELSE NoChar)

\* the score of a pass whose candidate matches (hit) the pattern character
ScoreHit(st, runes, str, j, hit, bonus) ==
  KeepBest(st, runes, str, j, hit, bonus,
           IF ~hit THEN st.score
           ELSE (IF j = 0 THEN firstCharMatchBonus ELSE 0)
                + (IF IsLower(st.last) /\ IsUpper(str[j + 1])
                   THEN camelCaseMatchBonus ELSE 0)
                + (IF j # 0 /\ IsSeparator(st.last)
                   THEN matchFollowingSeparatorBonus ELSE 0)
                + bonus)

\* the bonus of a match next to the last one
BonusHit(st, runes, str, j, hit) ==
  ScoreHit(st, runes, str, j, hit,
           IF hit /\ Len(st.MatchedIndexes) > 0
           THEN adjacentCharBonus(st.lastIndex, st.MatchedIndexes[Len(st.MatchedIndexes)],
                                  st.currAdjacentMatchBonus)
           ELSE 0)

\* one pass of the inner loop, over the candidate character str[j]
MatchChar(st, runes, str, j) ==
  BonusHit(st, runes, str, j,
           st.patternIndex < Len(runes)
             /\ equalFold(str[j + 1], runes[st.patternIndex + 1]))

RECURSIVE MatchFrom(_, _, _, _)
\* the passes j, j+1, ... of the inner loop (the state is read before each pass,
\* so that no pass is computed later than the next one starts)
MatchFrom(st, runes, str, j) ==
  IF st.lastIndex > j \/ j >= Len(str) THEN st
  ELSE MatchFrom(MatchChar(st, runes, str, j), runes, str, j + 1)

\* the match of one candidate: Index is the Go index of the candidate
MatchOf(runes, str, index) ==
  LET st == MatchFrom(MatchStart, runes, str, 0)
  IN  [Index |-> index, MatchedIndexes |-> st.MatchedIndexes,
       Score |-> st.Score + (Len(st.MatchedIndexes) - Len(str))]

\* Matches.Less
MatchLess(a, b) == a.Score >= b.Score

RECURSIVE InsertBack(_, _)
\* the inner loop of an insertion sort: the last element moves forward while Less
InsertBack(s, j) ==
  IF j > 1 /\ MatchLess(s[j], s[j - 1])
  THEN InsertBack([s EXCEPT ![j] = s[j - 1], ![j - 1] = s[j]], j - 1)
  ELSE s

RECURSIVE StableSort(_, _)
\* sort.Stable on a slice shorter than its block size: an insertion sort
StableSort(s, i) ==
  IF i > Len(s) THEN s ELSE StableSort(InsertBack(s, i), i + 1)

\* a variant that keeps the candidates the pattern did not match in full
FuzzyFindUnfiltered(pattern, data) ==
  IF Len(pattern) = 0 THEN <<>>
  ELSE StableSort([i \in 1..Len(data) |-> MatchOf(pattern, data[i], i - 1)], 2)

\* fuzzy.Find(pattern, data)
FuzzyFind(pattern, data) ==
  IF Len(pattern) = 0 THEN <<>>
  ELSE LET all == [i \in 1..Len(data) |-> MatchOf(pattern, data[i], i - 1)]
           hits == SelectSeq(all, LAMBDA mt : Len(mt.MatchedIndexes) = Len(pattern))
       IN  StableSort(hits, 2)

(* ------------------------------------------------------------------ *)
(* The picker (a Bubble Tea model: Update is a function of the model    *)
(* and the message).  cursor and the entries of filtered are Go         *)
(* (0-based) indexes.                                                   *)
(* ------------------------------------------------------------------ *)
ActionNone == "None"
ActionSwitch == "Switch"
ActionAdd == "Add"
ActionBack == "Back"
ActionDelete == "Delete"

\* s[k] of Go
At(s, k) == s[k + 1]

formatWorktreeLabel(wt) ==
  wt.RepoName \o <<"/">> \o wt.Branch
    \o (IF wt.IsMain THEN <<" ", "[", "m", "a", "i", "n", "]">> ELSE <<>>)

worktreeStrings(m) ==
  [i \in 1..Len(m.worktrees) |->
     formatWorktreeLabel(m.worktrees[i]) \o <<" ">> \o m.worktrees[i].Path]

AllIndexes(worktrees) == [i \in 1..Len(worktrees) |-> i - 1]

newPickerModel(worktrees) ==
  [worktrees |-> worktrees, filtered |-> AllIndexes(worktrees), matches |-> <<>>,
   cursor |-> 0, input |-> <<>>, action |-> ActionNone, quitting |-> FALSE,
   height |-> 10]

\* a variant that leaves the cursor where it is
updateFilterNoClamp(m) ==
  LET matches == IF m.input = <<>> THEN <<>> ELSE FuzzyFind(m.input, worktreeStrings(m))
      filtered == IF m.input = <<>> THEN AllIndexes(m.worktrees)
                  ELSE [i \in 1..Len(matches) |-> matches[i].Index]
  IN  [m EXCEPT !.matches = matches, !.filtered = filtered]

\* a variant that hands the empty query to fuzzy.Find too
updateFilterAlwaysFind(m) ==
  LET matches == FuzzyFind(m.input, worktreeStrings(m))
      filtered == [i \in 1..Len(matches) |-> matches[i].Index]
  IN  [m EXCEPT !.matches = matches, !.filtered = filtered,
                !.cursor = IF m.cursor >= Len(filtered)
                           THEN Max(0, Len(filtered) - 1) ELSE m.cursor]

\* a variant that keeps only the matching items in the list
updateFilterNarrows(m) ==
  LET matches == IF m.input = <<>> THEN <<>> ELSE FuzzyFind(m.input, worktreeStrings(m))
      filtered == IF m.input = <<>> THEN AllIndexes(m.worktrees)
                  ELSE [i \in 1..Len(matches) |-> matches[i].Index]
  IN  [m EXCEPT !.matches = matches, !.filtered = AllIndexes(filtered),
                !.worktrees = [k \in 1..Len(filtered) |-> m.worktrees[filtered[k] + 1]],
                !.cursor = IF m.cursor >= Len(filtered)
                           THEN Max(0, Len(filtered) - 1) ELSE m.cursor]

updateFilter(m) ==
  LET matches == IF m.input = <<>> THEN <<>> ELSE FuzzyFind(m.input, worktreeStrings(m))
      filtered == IF m.input = <<>> THEN AllIndexes(m.worktrees)
                  ELSE [i \in 1..Len(matches) |-> matches[i].Index]
  IN  [m EXCEPT !.matches = matches, !.filtered = filtered,
                !.cursor = IF m.cursor >= Len(filtered)
                           THEN Max(0, Len(filtered) - 1) ELSE m.cursor]

\* messages: a window size, or a key (with its rune for a typed character)
WindowSizeMsg(h) == [type |-> "WindowSize", key |-> "", rune |-> "", Height |-> h]
KeyMsg(k) == [type |-> "Key", key |-> k, rune |-> "", Height |-> 0]
RuneMsg(c) == [type |-> "Key", key |-> "Runes", rune |-> c, Height |-> 0]

\* textinput.Model.Update on the value: a typed character is inserted, backspace
\* deletes the character before the cursor (kept at the end), other keys edit nothing
InputUpdate(value, msg) ==
  IF msg.type # "Key" THEN value
  ELSE IF msg.key = "Runes" THEN Append(value, msg.rune)
  ELSE IF msg.key = "Backspace" /\ Len(value) > 0 THEN SubSeq(value, 1, Len(value) - 1)
  ELSE value

Quit(m, action) == [m EXCEPT !.action = action, !.quitting = TRUE]

EditAndFilter(m, msg) == updateFilter([m EXCEPT !.input = InputUpdate(m.input, msg)])

\* a variant that deletes whatever is under the cursor
DeleteKeyAny(m) ==
  IF Len(m.filtered) > 0 THEN Quit(m, ActionDelete) ELSE m

\* a variant that records the action and lets the loop go on
DeleteKeyGoesOn(m) ==
  IF Len(m.filtered) > 0 /\ ~At(m.worktrees, At(m.filtered, m.cursor)).IsMain
  THEN [m EXCEPT !.action = ActionDelete] ELSE m

\* a variant that creates only with an item under the cursor
CreateKeyWithItem(m) ==
  IF Len(m.filtered) > 0 THEN Quit(m, ActionAdd) ELSE m

\* case tea.KeyTab: add a new worktree
CreateKey(m) == Quit(m, ActionAdd)

\* case tea.KeyCtrlD: delete the selected worktree (if not main)
DeleteKey(m) ==
  IF Len(m.filtered) > 0 /\ ~At(m.worktrees, At(m.filtered, m.cursor)).IsMain
  THEN Quit(m, ActionDelete) ELSE m

\* a variant that switches whether or not there is an item
ConfirmKeyAlways(m, msg) == Quit(m, ActionSwitch)

\* case tea.KeyEnter: with no item the key falls through to the text input
ConfirmKey(m, msg) ==
  IF Len(m.filtered) > 0 THEN Quit(m, ActionSwitch) ELSE EditAndFilter(m, msg)

\* case tea.KeyUp, tea.KeyCtrlP
CursorUp(m) == IF m.cursor > 0 THEN [m EXCEPT !.cursor = m.cursor - 1] ELSE m

\* a variant that goes from the last item to the first
CursorDownWraps(m) ==
  IF m.cursor < Len(m.filtered) - 1 THEN [m EXCEPT !.cursor = m.cursor + 1]
  ELSE [m EXCEPT !.cursor = 0]

\* case tea.KeyDown, tea.KeyCtrlN
CursorDown(m) ==
  IF m.cursor < Len(m.filtered) - 1 THEN [m EXCEPT !.cursor = m.cursor + 1] ELSE m

Update(m, msg) ==
  IF msg.type = "WindowSize" THEN [m EXCEPT !.height = Min(msg.Height - 3, 20)]
  ELSE CASE msg.key \in {"CtrlC", "Esc"} -> Quit(m, ActionNone)
         [] msg.key = "Tab" -> CreateKey(m)
         [] msg.key = "CtrlD" -> DeleteKey(m)
         [] msg.key = "Enter" -> ConfirmKey(m, msg)
         [] msg.key \in {"Up", "CtrlP"} -> CursorUp(m)
         [] msg.key \in {"Down", "CtrlN"} -> CursorDown(m)
         [] OTHER -> EditAndFilter(m, msg)

NoWorktree == <<>>

\* a variant that returns the worktree for a switch only
PickerResultOfSwitch(m) ==
  IF m.action = ActionSwitch /\ Len(m.filtered) > 0
  THEN [Action |-> m.action, Worktree |-> <<At(m.worktrees, At(m.filtered, m.cursor))>>]
  ELSE [Action |-> m.action, Worktree |-> NoWorktree]

\* what PickWorktree returns for the final model: the worktree is a sequence of
\* at most one element (empty: nil)
PickerResult(m) ==
  IF m.action \in {ActionSwitch, ActionDelete, ActionAdd} /\ Len(m.filtered) > 0
  THEN [Action |-> m.action, Worktree |-> <<At(m.worktrees, At(m.filtered, m.cursor))>>]
  ELSE [Action |-> m.action, Worktree |-> NoWorktree]

\* what PickWorktreeSimple returns
SimpleResult(m) ==
  IF m.action = ActionSwitch /\ Len(m.filtered) > 0
  THEN <<At(m.worktrees, At(m.filtered, m.cursor))>> ELSE NoWorktree

(* ------------------------------------------------------------------ *)
(* State                                                                *)
(* ------------------------------------------------------------------ *)
VARIABLES
  repos,          \* table repos
  wts,            \* table worktrees
  git,            \* per repository, its linked worktrees as git lists them
  pc,             \* where the running invocation stands ("idle": none runs)
  cmd,            \* the command that runs: "root", "remove" or "add"
  cwdRepo,        \* <<GetMainRepoPath(cwd)>> if IsInsideRepo(cwd), else <<>>
  args,           \* the path, branch and --force of the command line, once read
  ret,            \* the caller of syncWorktrees: "syncAll" or "add"
  queue,          \* syncAllRepos: the repositories still to visit
  cur,            \* syncWorktrees: its repo argument, <<repo>>
  gitWorktrees,   \* syncWorktrees: the listing it obtained
  existingPaths,  \* syncWorktrees: the paths upserted so far
  worktrees,      \* runRoot / runRemove: the list handed to the picker
  m,              \* the picker's model
  lastMsg,        \* the message the picker handled last
  sel,            \* the worktree a workflow works on, <<wt>>
  addArgs,        \* runAddWithBranchFromRepo: its arguments repoPath and branch
  exit,           \* how the invocation ended
  stdout,         \* the directives printed
  stderr,         \* the warnings and errors printed (progress messages left out)
  calls,          \* the git and filesystem calls made by the invocation
  stmt,           \* the last statement run on table worktrees, with its effect
  tmux            \* the tmux session: its windows by index, and the current one

catalogVars == <<repos, wts, stmt>>
ctlVars == <<cmd, cwdRepo, args>>
syncVars == <<ret, queue, cur, gitWorktrees, existingPaths>>
uiVars == <<worktrees, m, lastMsg, sel, addArgs>>
outVars == <<exit, stdout, stderr, calls>>
\* what the running command holds in its variables
locals == <<cwdRepo, args, syncVars, uiVars>>
vars == <<repos, wts, git, pc, cmd, cwdRepo, args, ret, queue, cur, gitWorktrees,
          existingPaths, worktrees, m, lastMsg, sel, addArgs, exit, stdout, stderr, calls,
          stmt, tmux>>

\* no tmux session
NoSession == [windows |-> {}, current |-> 0]

NoStmt == [op |-> "", arg |-> <<>>, cleared |-> {}, set |-> {}, inserted |-> {}]

\* a statement on table worktrees and what it did: the rows whose tombstone it
\* cleared, the rows it tombstoned, the rows it inserted
Stmt(op, arg, W, W2) ==
  [op |-> op, arg |-> arg,
   cleared |-> {i \in RowIds(W) : W[i].deleted /\ ~W2[i].deleted},
   set |-> {i \in RowIds(W) : ~W[i].deleted /\ W2[i].deleted},
   inserted |-> RowIds(W2) \ RowIds(W)]

\* no tea program runs
NoPicker == newPickerModel(<<>>)
NoMsg == [type |-> "", key |-> "", rune |-> "", Height |-> 0]
NoArgs == [path |-> <<>>, branch |-> <<>>, force |-> FALSE]
NoAddArgs == [repoPath |-> <<>>, branch |-> <<>>]
Running == [status |-> "", msg |-> ""]

Init ==
  /\ repos = <<>>
  /\ wts = <<>>
  /\ git = [r \in RepoPaths |-> <<>>]
  /\ pc = "idle"
  /\ cmd = ""
  /\ cwdRepo = <<>>
  /\ args = NoArgs
  /\ ret = ""
  /\ queue = <<>>
  /\ cur = <<>>
  /\ gitWorktrees = <<>>
  /\ existingPaths = <<>>
  /\ worktrees = <<>>
  /\ m = NoPicker
  /\ lastMsg = NoMsg
  /\ sel = <<>>
  /\ addArgs = NoAddArgs
  /\ exit = Running
  /\ stdout = <<>>
  /\ stderr = <<>>
  /\ calls = <<>>
  /\ stmt = NoStmt
  /\ tmux = NoSession

(* ------------------------------------------------------------------ *)
(* The world: git worktrees come and go while no invocation runs        *)
(* ------------------------------------------------------------------ *)
LinkedPathsOf(r) == {git[r][i].path : i \in 1..Len(git[r])}
OnDisk == UNION {LinkedPathsOf(r) : r \in RepoPaths}

\* a user runs git worktree add in repository r
GitAdd(r, p) ==
  /\ pc = "idle"
  /\ <<r, p>> \in Placements
  /\ p \notin OnDisk
  /\ git' = [git EXCEPT ![r] = Append(@, [path |-> p, branch |-> LinkedBranch(r, p)])]
  /\ UNCHANGED <<catalogVars, pc, ctlVars, syncVars, uiVars, outVars>>

\* a user runs git worktree remove in repository r
GitRemove(r, p) ==
  /\ pc = "idle"
  /\ p \in LinkedPathsOf(r)
  /\ git' = [git EXCEPT ![r] = SelectSeq(@, LAMBDA l : l.path # p)]
  /\ UNCHANGED <<catalogVars, pc, ctlVars, syncVars, uiVars, outVars>>

\* git rev-parse --is-inside-work-tree: the bare repository's own directory is
\* not a work tree
IsInsideRepo(cwd) ==
  cwd \in (RepoPaths \ BareRepos) \/ cwd \in OnDisk

\* git rev-parse --git-common-dir, then its parent
GetMainRepoPath(cwd) ==
  IF cwd \in RepoPaths THEN cwd ELSE CHOOSE r \in RepoPaths : cwd \in LinkedPathsOf(r)

Outside == <<"/", "t">>
Cwds == RepoPaths \cup LinkedPaths \cup {Outside}

(* ------------------------------------------------------------------ *)
(* An invocation starts and ends                                        *)
(* ------------------------------------------------------------------ *)
Ok == [status |-> "ok", msg |-> ""]
Error(msg) == [status |-> "error", msg |-> msg]

Call(op, repoPath, path) == [op |-> op, repo |-> repoPath, path |-> path]
Warning(msg, name) == [msg |-> msg, name |-> name]
Line(kind, text) == [kind |-> kind, text |-> text]

\* the paths and branches given on the command line
ArgPaths == {RepoA} \cup LinkedPaths
ArgBranches == {BrX}

\* the shell runs wt, wt remove or wt add in directory c; the arguments are
\* recorded in args where the command reads them
Start(c, command) ==
  /\ pc = "idle"
  /\ cmd' = command
  /\ cwdRepo' = IF IsInsideRepo(c) THEN <<GetMainRepoPath(c)>> ELSE <<>>
  /\ pc' = IF command = "add" THEN "runAdd" ELSE "ensure"
  /\ UNCHANGED <<catalogVars, git, args, syncVars, uiVars, outVars>>

StartRoot == \E c \in Cwds : Start(c, "root")

StartRemove == \E c \in Cwds : Start(c, "remove")

StartAdd == \E c \in Cwds : Start(c, "add")

\* CURRENT_TIMESTAMP values of a finished invocation lie in the past
Aged(R) ==
  [i \in RowIds(R) |->
     IF R[i].last_synced_at = Now THEN [R[i] EXCEPT !.last_synced_at = Past] ELSE R[i]]

\* RunE returned: the variables of the command are gone, the process is about
\* to exit with what it printed
Returns(e) ==
  /\ pc' = "done"
  /\ exit' = e
  /\ cwdRepo' = <<>> /\ args' = NoArgs
  /\ ret' = "" /\ queue' = <<>> /\ cur' = <<>>
  /\ gitWorktrees' = <<>> /\ existingPaths' = <<>>
  /\ worktrees' = <<>> /\ m' = NoPicker /\ lastMsg' = NoMsg /\ sel' = <<>>
  /\ addArgs' = NoAddArgs

\* a variant in which the error is printed and the status is 0
FailsWithStatusZero(msg) ==
  /\ Returns(Ok)
  /\ stderr' = Append(stderr, Warning(msg, <<>>))

\* RunE returned err: Execute prints it and exits with status 1
Fails(msg) ==
  /\ Returns(Error(msg))
  /\ stderr' = Append(stderr, Warning(msg, <<>>))

\* RunE returned nil
Succeeds == Returns(Ok)

\* the process has exited; the next invocation starts afresh
Exit ==
  /\ pc = "done"
  /\ pc' = "idle"
  /\ repos' = Aged(repos)
  /\ cmd' = ""
  /\ exit' = Running /\ stdout' = <<>> /\ stderr' = <<>> /\ calls' = <<>>
  /\ stmt' = NoStmt
  /\ UNCHANGED <<wts, git, locals>>

\* the most calls (to the database, git, the file system, the terminal) that
\* fail in one invocation; each of them leaves a line in stderr
MaxFaults == 1

MayFail == Len(stderr) < MaxFaults

\* whether such a call succeeds
Outcomes == IF MayFail THEN BOOLEAN ELSE {TRUE}

(* ------------------------------------------------------------------ *)
(* The reconciler                                                       *)
(* ------------------------------------------------------------------ *)
DbFaults == {"none", "check", "save"}

\* a variant that saves the repository whether it is in the table or not
ensureAlwaysSaves(R, mainRepoPath, fault) ==
  IF fault = "check" THEN [err |-> "failed to check repo", repos |-> R]
  ELSE IF fault = "save" THEN [err |-> "failed to save repo", repos |-> R]
  ELSE [err |-> "",
        repos |-> UpsertRepo(R, mainRepoPath, GetRepoName(mainRepoPath),
                             GetDefaultWorktreesDir(mainRepoPath), Past)]

\* ensureCurrentRepoInDB, given the main repository path: the error it returns
\* ("" for nil) and the table it leaves
ensureCurrentRepoInDB(R, mainRepoPath, fault) ==
  IF fault = "check" THEN [err |-> "failed to check repo", repos |-> R]
  ELSE IF GetRepoByPath(R, mainRepoPath) # {} THEN [err |-> "", repos |-> R]
  ELSE IF fault = "save" THEN [err |-> "failed to save repo", repos |-> R]
  ELSE [err |-> "",
        repos |-> UpsertRepo(R, mainRepoPath, GetRepoName(mainRepoPath),
                             GetDefaultWorktreesDir(mainRepoPath), Past)]

\* runRoot / runRemove: if inside a repository, make sure it is in the catalog
Ensure ==
  /\ pc = "ensure"
  /\ IF cwdRepo = <<>>
     THEN /\ pc' = "syncAllRepos"
          /\ UNCHANGED <<repos, exit, stderr, locals>>
     ELSE \E fault \in (IF MayFail THEN DbFaults ELSE {"none"}) :
            LET e == ensureCurrentRepoInDB(repos, cwdRepo[1], fault)
            IN  /\ repos' = e.repos
                /\ IF e.err # "" THEN Fails(e.err)
                   ELSE pc' = "syncAllRepos" /\ UNCHANGED <<exit, stderr, locals>>
  /\ UNCHANGED <<wts, stmt, git, cmd, stdout, calls>>

\* where the command goes on after syncAllRepos returned nil
AfterSyncAll == IF cmd = "root" THEN "display" ELSE "select"

\* syncAllRepos: the for loop goes on over the repositories q, and with the
\* last one done syncAllRepos returns nil
NextRepo(q) ==
  IF q = <<>>
  THEN /\ pc' = AfterSyncAll
       /\ queue' = q
       /\ UNCHANGED cur
  ELSE /\ pc' = "syncWorktrees"
       /\ queue' = Tail(q)
       /\ cur' = <<Head(q)>>

\* syncAllRepos: db.ListRepos, and into the loop
SyncAllRepos ==
  /\ pc = "syncAllRepos"
  /\ \E ok \in Outcomes :
       IF ok
       THEN /\ NextRepo(ListRepos(repos))
            /\ ret' = "syncAll"
            /\ UNCHANGED <<exit, stderr, cwdRepo, args, gitWorktrees, existingPaths, uiVars>>
       ELSE Fails("failed to list repos")
  /\ UNCHANGED <<catalogVars, git, cmd, stdout, calls>>

\* what the caller of syncWorktrees does with its error: syncAllRepos logs it
\* and continues with the next repository, runAddWithBranchFromRepo returns it
\* a variant in which every caller returns the error
ReturnSyncError(caller) == "return"

OnSyncError(caller) == IF caller = "syncAll" THEN "warn" ELSE "return"

SyncReturnsError ==
  IF OnSyncError(ret) = "warn"
  THEN /\ stderr' = Append(stderr, Warning("warning: failed to sync", cur[1].Name))
       /\ NextRepo(queue)
       /\ UNCHANGED <<exit, ret, cwdRepo, args, gitWorktrees, existingPaths, uiVars>>
  ELSE Fails("failed to sync worktrees")

\* syncWorktrees goes on at the statement at
SyncGoesOn(at) ==
  /\ pc' = at
  /\ UNCHANGED <<exit, stderr, cwdRepo, args, ret, queue, cur, uiVars>>

\* git.ListWorktrees(repoPath)
ListWorktrees(repoPath) == parseWorktreeList(Porcelain(repoPath, git[repoPath]))

\* a variant that stamps the repository as synced though the listing failed
SyncListStampsFailure ==
  /\ pc = "syncWorktrees"
  /\ calls' = Append(calls, Call("ListWorktrees", cur[1].Path, <<>>))
  /\ \E ok \in Outcomes :
       IF ok
       THEN /\ gitWorktrees' = ListWorktrees(cur[1].Path)
            /\ existingPaths' = <<>>
            /\ SyncGoesOn("upsert")
            /\ UNCHANGED repos
       ELSE /\ SyncReturnsError
            /\ repos' = UpdateLastSynced(repos, cur[1].ID)
  /\ UNCHANGED <<wts, stmt, git, cmd, stdout>>

\* syncWorktrees: get the worktrees from git
SyncList ==
  /\ pc = "syncWorktrees"
  /\ calls' = Append(calls, Call("ListWorktrees", cur[1].Path, <<>>))
  /\ \E ok \in Outcomes :
       IF ok
       THEN /\ gitWorktrees' = ListWorktrees(cur[1].Path)
            /\ existingPaths' = <<>>
            /\ SyncGoesOn("upsert")
       ELSE SyncReturnsError
  /\ UNCHANGED <<catalogVars, git, cmd, stdout>>

\* syncWorktrees: one pass of the upsert loop
SyncUpsert ==
  /\ pc = "upsert"
  /\ Len(existingPaths) < Len(gitWorktrees)
  /\ LET gwt == gitWorktrees[Len(existingPaths) + 1]
         new == UpsertWorktree(wts, cur[1].ID, gwt.Path, gwt.Branch, gwt.IsMain)
     IN  \E ok \in Outcomes :
           IF ok
           THEN /\ wts' = new
                /\ stmt' = Stmt("UpsertWorktree", gwt.Path, wts, new)
                /\ existingPaths' = Append(existingPaths, gwt.Path)
                /\ SyncGoesOn("upsert")
                /\ UNCHANGED gitWorktrees
           ELSE /\ SyncReturnsError
                /\ UNCHANGED <<wts, stmt>>
  /\ UNCHANGED <<repos, git, cmd, stdout, calls>>

\* a variant that returns nil without the statement
SyncSoftDeleteSkipped ==
  /\ pc = "upsert"
  /\ Len(existingPaths) = Len(gitWorktrees)
  /\ SyncGoesOn("synced")
  /\ UNCHANGED <<catalogVars, gitWorktrees, existingPaths, git, cmd, stdout, calls>>

\* syncWorktrees: soft-delete the worktrees that no longer exist
SyncSoftDelete ==
  /\ pc = "upsert"
  /\ Len(existingPaths) = Len(gitWorktrees)
  /\ LET new == SoftDeleteMissingWorktrees(wts, cur[1].ID, existingPaths)
     IN  \E ok \in Outcomes :
           IF ok
           THEN /\ wts' = new
                /\ stmt' = Stmt("SoftDeleteMissingWorktrees", <<cur[1].ID>>, wts, new)
                /\ SyncGoesOn("synced")
                /\ UNCHANGED <<gitWorktrees, existingPaths>>
           ELSE /\ SyncReturnsError
                /\ UNCHANGED <<wts, stmt>>
  /\ UNCHANGED <<repos, git, cmd, stdout, calls>>

\* syncAllRepos: syncWorktrees returned nil, db.UpdateLastSynced
SyncedAll ==
  /\ pc = "synced"
  /\ ret = "syncAll"
  /\ \E ok \in Outcomes :
       IF ok
       THEN /\ repos' = UpdateLastSynced(repos, cur[1].ID)
            /\ UNCHANGED stderr
       ELSE /\ stderr' = Append(stderr, Warning("warning: failed to update sync timestamp",
                                                cur[1].Name))
            /\ UNCHANGED repos
  /\ NextRepo(queue)
  /\ UNCHANGED <<wts, stmt, git, cmd, cwdRepo, args, ret, gitWorktrees, existingPaths, uiVars,
                 exit, stdout, calls>>

(* ------------------------------------------------------------------ *)
(* wt: the picker loop of runRoot                                       *)
(* ------------------------------------------------------------------ *)
currentRepoPath == IF cwdRepo = <<>> THEN <<>> ELSE cwdRepo[1]

\* the command goes on at the statement at, with its variables as they are
GoesOn(at) ==
  /\ pc' = at
  /\ UNCHANGED <<exit, cwdRepo, args, syncVars, lastMsg>>

\* a picker over the list is shown
ShowPicker(list, at) ==
  /\ worktrees' = list
  /\ m' = newPickerModel(list)
  /\ GoesOn(at)

\* runRoot: the display phase
Display ==
  /\ pc = "display"
  /\ \E ok \in Outcomes :
       LET list == ListAllWorktreesWithRepoFirst(wts, repos, currentRepoPath)
       IN  IF ~ok THEN Fails("failed to list worktrees")
           ELSE IF list # <<>>
           THEN ShowPicker(list, "picker") /\ UNCHANGED <<sel, addArgs, stderr>>
           ELSE IF cwdRepo = <<>> THEN Fails("no worktrees found")
           ELSE Fails("no source worktree selected")
  /\ UNCHANGED <<catalogVars, git, cmd, stdout, calls>>

\* the keys pressed in the pickers of wt and wt remove: the user moves the
\* cursor and ends the picker (queries are typed in SpecSel below)
Keys == {"Esc", "Tab", "CtrlD", "Enter", "Up", "Down"}

Msgs == {KeyMsg(k) : k \in Keys}

\* config.LoadProject(repoPath).OnEnter: /a has an on_enter command, /b has none
OnEnter(repoPath) == IF repoPath = RepoA THEN <<"o", "n">> ELSE <<>>

\* what outputWorktreeSwitch prints
outputWorktreeSwitch(worktreePath, repoPath) ==
  <<Line("cd", worktreePath)>>
    \o (IF OnEnter(repoPath) # <<>> THEN <<Line("on_enter", OnEnter(repoPath))>> ELSE <<>>)

\* a variant that prints the directive for the first worktree of the list when
\* the picker was cancelled
RootResultCancelPrints(result) ==
  LET wt == result.Worktree
  IN  CASE result.Action = ActionSwitch /\ wt # NoWorktree ->
             /\ stdout' = stdout \o outputWorktreeSwitch(wt[1].Path, wt[1].RepoPath)
             /\ Succeeds
        [] result.Action = ActionAdd /\ wt # NoWorktree ->
             /\ sel' = wt
             /\ m' = NoPicker
             /\ GoesOn("inputBranch")
             /\ UNCHANGED <<worktrees, addArgs, stdout>>
        [] result.Action = ActionDelete /\ wt # NoWorktree ->
             /\ sel' = wt
             /\ m' = NoPicker
             /\ GoesOn("deleteWorktree")
             /\ UNCHANGED <<worktrees, addArgs, stdout>>
        [] result.Action \in {ActionAdd, ActionDelete} /\ wt = NoWorktree ->
             /\ ShowPicker(worktrees, "picker")
             /\ UNCHANGED <<sel, addArgs, stdout>>
        [] OTHER ->
             /\ Succeeds
             /\ stdout' = stdout \o outputWorktreeSwitch(worktrees[1].Path,
                                                         worktrees[1].RepoPath)

\* runRoot: the switch on the result of ui.PickWorktree
RootResult(result) ==
  LET wt == result.Worktree
  IN  CASE result.Action = ActionSwitch /\ wt # NoWorktree ->
             /\ stdout' = stdout \o outputWorktreeSwitch(wt[1].Path, wt[1].RepoPath)
             /\ Succeeds
        [] result.Action = ActionAdd /\ wt # NoWorktree ->
             /\ sel' = wt
             /\ m' = NoPicker
             /\ GoesOn("inputBranch")
             /\ UNCHANGED <<worktrees, addArgs, stdout>>
        [] result.Action = ActionDelete /\ wt # NoWorktree ->
             /\ sel' = wt
             /\ m' = NoPicker
             /\ GoesOn("deleteWorktree")
             /\ UNCHANGED <<worktrees, addArgs, stdout>>
        [] result.Action \in {ActionAdd, ActionDelete} /\ wt = NoWorktree ->
             /\ ShowPicker(worktrees, "picker")
             /\ UNCHANGED <<sel, addArgs, stdout>>
        [] OTHER ->
             /\ Succeeds
             /\ UNCHANGED stdout

\* runRoot in ui.PickWorktree: the tea program handles one message; if that
\* makes it quit, PickWorktree returns the result of the final model and
\* runRoot acts on it
RootPick ==
  /\ pc = "picker"
  /\ \E msg \in Msgs :
       LET m2 == Update(m, msg)
       IN  IF m2.quitting THEN RootResult(PickerResult(m2))
           ELSE /\ m' = m2
                /\ GoesOn("picker")
                /\ UNCHANGED <<worktrees, sel, addArgs, stdout>>
  /\ UNCHANGED <<catalogVars, git, cmd, stderr, calls>>

\* git worktree remove (--force) of path in repoPath did its work
Removed(repoPath, path) ==
  [git EXCEPT ![repoPath] = SelectSeq(@, LAMBDA l : l.path # path)]

\* how a removal can go: the user declines, git removes, git removes only when
\* forced, git fails, the catalog update fails, the terminal fails.  Git cannot
\* remove what is not a worktree of the repository.
RemovalOutcomes(wt) ==
  {"declined"}
    \cup (IF wt.RepoPath \in RepoPaths /\ wt.Path \in LinkedPathsOf(wt.RepoPath)
          THEN {"removed", "forced"} \cup (IF MayFail THEN {"dbFailed"} ELSE {})
          ELSE {})
    \cup (IF MayFail THEN {"removeFailed", "confirmFailed"} ELSE {})

\* the bytes read from the terminal at the prompt: LF, CR, Esc, n, y
KeyBytes == {10, 13, 27, 110, 121}

\* a variant that takes any key as a yes
ConfirmAnyKey(b) == TRUE

\* ui.Confirm(message), given the byte read: Enter (CR or LF) confirms
Confirm(b) == b = 13 \/ b = 10

\* what a removal workflow for wt does when byte b is read at the prompt
AnswerOutcomes(wt, b) ==
  {o \in RemovalOutcomes(wt) : o = "confirmFailed" \/ (o = "declined" <=> ~Confirm(b))}

\* what a removal workflow did: the error it returns ("" for nil), the removals
\* it asked git for, and the worktrees of git and the rows it leaves
Outcome(err, removals, G, W) == [err |-> err, calls |-> removals, git |-> G, wts |-> W]

\* a variant that never forces the removal
deleteWorktreeUnforced(wt, outcome) ==
  LET plain == Call("RemoveWorktree", wt.RepoPath, wt.Path)
      gone == Removed(wt.RepoPath, wt.Path)
  IN  IF wt.IsMain THEN Outcome("cannot delete the main worktree", <<>>, git, wts)
      ELSE CASE outcome = "confirmFailed" -> Outcome("confirm failed", <<>>, git, wts)
             [] outcome = "declined" -> Outcome("", <<>>, git, wts)
             [] outcome = "removed" ->
                  Outcome("", <<plain>>, gone, SoftDeleteWorktree(wts, wt.ID))
             [] outcome = "dbFailed" ->
                  Outcome("failed to update database", <<plain>>, gone, wts)
             [] OTHER -> Outcome("failed to remove worktree", <<plain>>, git, wts)

\* deleteWorktree(database, wt)
deleteWorktree(wt, outcome) ==
  LET plain == Call("RemoveWorktree", wt.RepoPath, wt.Path)
      forced == Call("RemoveWorktreeForce", wt.RepoPath, wt.Path)
      gone == Removed(wt.RepoPath, wt.Path)
  IN  IF wt.IsMain THEN Outcome("cannot delete the main worktree", <<>>, git, wts)
      ELSE CASE outcome = "confirmFailed" -> Outcome("confirm failed", <<>>, git, wts)
             [] outcome = "declined" -> Outcome("", <<>>, git, wts)
             [] outcome = "removed" ->
                  Outcome("", <<plain>>, gone, SoftDeleteWorktree(wts, wt.ID))
             [] outcome = "dbFailed" ->
                  Outcome("failed to update database", <<plain>>, gone, wts)
             [] outcome = "forced" ->
                  Outcome("", <<plain, forced>>, gone, SoftDeleteWorktree(wts, wt.ID))
             [] OTHER -> Outcome("failed to remove worktree", <<plain, forced>>, git, wts)

\* runRoot, case ActionDelete: deleteWorktree, whose error is printed
DeleteWorktree ==
  /\ pc = "deleteWorktree"
  /\ \E b \in KeyBytes : \E outcome \in AnswerOutcomes(sel[1], b) :
       /\ calls' = calls \o deleteWorktree(sel[1], outcome).calls
       /\ git' = deleteWorktree(sel[1], outcome).git
       /\ wts' = deleteWorktree(sel[1], outcome).wts
       /\ stmt' = IF deleteWorktree(sel[1], outcome).wts # wts
                  THEN Stmt("SoftDeleteWorktree", <<sel[1].ID>>, wts,
                            deleteWorktree(sel[1], outcome).wts)
                  ELSE stmt
       /\ stderr' = IF deleteWorktree(sel[1], outcome).err # ""
                    THEN Append(stderr, Warning("Error", deleteWorktree(sel[1], outcome).err))
                    ELSE stderr
  /\ GoesOn("refresh")
  /\ UNCHANGED <<repos, cmd, uiVars, stdout>>

\* a variant that shows the list as it was before the delete
RefreshKeepsList ==
  /\ pc = "refresh"
  /\ ShowPicker(worktrees, "picker")
  /\ UNCHANGED <<sel, addArgs, stderr>>
  /\ UNCHANGED <<catalogVars, git, cmd, stdout, calls>>

\* runRoot, case ActionDelete: refresh the list and continue
Refresh ==
  /\ pc = "refresh"
  /\ \E ok \in Outcomes :
       LET list == ListAllWorktreesWithRepoFirst(wts, repos, currentRepoPath)
       IN  IF ~ok THEN Fails("failed to list worktrees")
           ELSE IF list # <<>>
           THEN ShowPicker(list, "picker") /\ UNCHANGED <<sel, addArgs, stderr>>
           ELSE Succeeds /\ UNCHANGED stderr
  /\ UNCHANGED <<catalogVars, git, cmd, stdout, calls>>

(* ------------------------------------------------------------------ *)
(* wt remove                                                            *)
(* ------------------------------------------------------------------ *)
\* runRemove: non-main worktrees of the list
Removable(list) == SelectSeq(list, LAMBDA wt : ~wt.IsMain)

\* runRemove after the sync phase: the worktree comes from the path argument
\* or from the picker
Select ==
  /\ pc = "select"
  /\ \E p \in ArgPaths \cup {<<>>}, removeForce \in BOOLEAN, ok \in Outcomes :
       IF p # <<>>
       THEN LET found == GetWorktreeByPath(wts, repos, p)
            IN  IF ~ok THEN Fails("failed to get worktree")
                ELSE IF found = {} THEN Fails("worktree not found")
                ELSE /\ sel' = <<CHOOSE wt \in found : TRUE>>
                     /\ args' = [args EXCEPT !.path = p, !.force = removeForce]
                     /\ pc' = "runRemove"
                     /\ UNCHANGED <<exit, stderr, cwdRepo, syncVars, worktrees, m, lastMsg,
                                    addArgs>>
       ELSE LET removable == Removable(ListAllWorktrees(wts, repos))
            IN  IF ~ok THEN Fails("failed to list worktrees")
                ELSE IF removable = <<>> THEN Fails("no removable worktrees found")
                ELSE /\ worktrees' = removable
                     /\ m' = newPickerModel(removable)
                     /\ args' = [args EXCEPT !.force = removeForce]
                     /\ pc' = "pickSimple"
                     /\ UNCHANGED <<exit, stderr, cwdRepo, syncVars, lastMsg, sel, addArgs>>
  /\ UNCHANGED <<catalogVars, git, cmd, stdout, calls>>

\* runRemove in ui.PickWorktreeSimple: the tea program handles one message; if
\* that makes it quit, PickWorktreeSimple returns the worktree of the final
\* model and runRemove goes on
RemovePick ==
  /\ pc = "pickSimple"
  /\ \E msg \in Msgs :
       LET m2 == Update(m, msg)
           worktree == SimpleResult(m2)
       IN  IF ~m2.quitting
           THEN m' = m2 /\ GoesOn("pickSimple") /\ UNCHANGED <<worktrees, sel, addArgs>>
           ELSE IF worktree = NoWorktree THEN Succeeds
           ELSE /\ sel' = worktree
                /\ m' = NoPicker
                /\ GoesOn("runRemove")
                /\ UNCHANGED <<worktrees, addArgs>>
  /\ UNCHANGED <<catalogVars, git, cmd, stdout, stderr, calls>>

\* a variant that never forces
RemoveOpPlain(force) == "RemoveWorktree"

\* runRemove: the removal it asks git for, given removeForce
RemoveOp(force) == IF force THEN "RemoveWorktreeForce" ELSE "RemoveWorktree"

\* runRemove from the main-worktree check on, given removeForce
runRemove(worktree, force, outcome) ==
  LET asked == Call(RemoveOp(force), worktree.RepoPath, worktree.Path)
      gone == Removed(worktree.RepoPath, worktree.Path)
      hint == "failed to remove worktree (use --force to force removal)"
  IN  IF worktree.IsMain THEN Outcome("cannot remove the main worktree", <<>>, git, wts)
      ELSE CASE outcome = "confirmFailed" -> Outcome("confirm failed", <<>>, git, wts)
             [] outcome = "declined" -> Outcome("", <<>>, git, wts)
             [] outcome = "removed" \/ (outcome = "forced" /\ force) ->
                  Outcome("", <<asked>>, gone, SoftDeleteWorktree(wts, worktree.ID))
             [] outcome = "dbFailed" ->
                  Outcome("failed to update database", <<asked>>, gone, wts)
             [] OTHER -> Outcome(hint, <<asked>>, git, wts)

\* runRemove from the main-worktree check on
RunRemove ==
  /\ pc = "runRemove"
  /\ \E b \in KeyBytes :
     \E outcome \in (IF sel[1].IsMain THEN {"declined"} ELSE AnswerOutcomes(sel[1], b)) :
       /\ calls' = calls \o runRemove(sel[1], args.force, outcome).calls
       /\ git' = runRemove(sel[1], args.force, outcome).git
       /\ wts' = runRemove(sel[1], args.force, outcome).wts
       /\ stmt' = IF runRemove(sel[1], args.force, outcome).wts # wts
                  THEN Stmt("SoftDeleteWorktree", <<sel[1].ID>>, wts,
                            runRemove(sel[1], args.force, outcome).wts)
                  ELSE stmt
       /\ stdout' = IF ~sel[1].IsMain /\ outcome = "declined"
                    THEN Append(stdout, Line("text", <<"Cancelled.">>))
                    ELSE stdout
       /\ IF runRemove(sel[1], args.force, outcome).err # ""
          THEN Fails(runRemove(sel[1], args.force, outcome).err)
          ELSE Succeeds /\ UNCHANGED stderr
  /\ UNCHANGED <<repos, cmd>>

(* ------------------------------------------------------------------ *)
(* wt add, and the add workflow of the picker                           *)
(* ------------------------------------------------------------------ *)
\* the worktree reference runAdd makes up for the current repository
SourceWorktree(repoPath, repoName) ==
  [ID |-> 0, RepoID |-> 0, Path |-> <<>>, Branch |-> <<>>, IsMain |-> FALSE,
   Deleted |-> FALSE, RepoName |-> repoName, RepoPath |-> repoPath]

\* the command ends with what runAddWithBranchFromRepo returns: of its own
\* variables none is read again
AddsWithBranch ==
  /\ pc' = "addWithBranch"
  /\ cwdRepo' = <<>> /\ args' = NoArgs
  /\ ret' = "" /\ queue' = <<>> /\ cur' = <<>>
  /\ gitWorktrees' = <<>> /\ existingPaths' = <<>>
  /\ worktrees' = <<>> /\ m' = NoPicker /\ lastMsg' = NoMsg /\ sel' = <<>>
  /\ UNCHANGED exit

\* runAdd
RunAdd ==
  /\ pc = "runAdd"
  /\ IF cwdRepo = <<>>
     THEN Fails("not inside a git repository") /\ UNCHANGED repos
     ELSE \E b \in ArgBranches \cup {<<>>},
             fault \in (IF MayFail THEN DbFaults ELSE {"none"}) :
            IF b # <<>>
            THEN /\ addArgs' = [repoPath |-> cwdRepo[1], branch |-> b]
                 /\ AddsWithBranch
                 /\ UNCHANGED <<repos, stderr>>
            ELSE LET e == ensureCurrentRepoInDB(repos, cwdRepo[1], fault)
                     repo == GetRepoByPath(e.repos, cwdRepo[1])
                 IN  /\ repos' = e.repos
                     /\ IF fault = "check" THEN Fails("failed to get repo")
                        ELSE IF e.err # "" THEN Fails(e.err)
                        ELSE /\ sel' = <<SourceWorktree(cwdRepo[1],
                                                        (CHOOSE r \in repo : TRUE).Name)>>
                             /\ GoesOn("inputBranch")
                             /\ UNCHANGED <<stderr, worktrees, m, addArgs>>
  /\ UNCHANGED <<wts, stmt, git, cmd, stdout, calls>>

\* what ui.InputBranch returns: a branch name (the trimmed text), nothing, or back
InputBranchResults ==
  {[branch |-> b, action |-> ActionNone] : b \in ArgBranches \cup {<<>>}}
    \cup {[branch |-> <<>>, action |-> ActionBack]}

\* a variant without the test for an empty branch
runAddWorkflowAnyBranch(r) ==
  IF r.action = ActionBack /\ cmd = "root"
  THEN ShowPicker(worktrees, "picker") /\ UNCHANGED <<sel, addArgs>>
  ELSE IF r.action = ActionBack
  THEN Succeeds
  ELSE /\ addArgs' = [repoPath |-> sel[1].RepoPath, branch |-> r.branch]
       /\ AddsWithBranch

\* runAddWorkflow(sourceWorktree) with a source worktree, given what
\* ui.InputBranch returned, and what its caller does when it returns without
\* creating anything
runAddWorkflow(r) ==
  IF r.action = ActionBack /\ cmd = "root"
  THEN ShowPicker(worktrees, "picker") /\ UNCHANGED <<sel, addArgs>>
  ELSE IF r.action = ActionBack \/ r.branch = <<>>
  THEN Succeeds
  ELSE /\ addArgs' = [repoPath |-> sel[1].RepoPath, branch |-> r.branch]
       /\ AddsWithBranch

AddWorkflow ==
  /\ pc = "inputBranch"
  /\ \E r \in InputBranchResults : runAddWorkflow(r)
  /\ UNCHANGED <<catalogVars, git, cmd, stdout, stderr, calls>>

AddFaults == {"none", "check", "save", "mkdir", "getRepo"}

\* the three git worktree add commands of AddWorktree, in the order it runs them
TierOps == <<"worktree add", "worktree add -b origin", "worktree add -b">>

\* what the three commands would do if run; that all fail counts as a fault
TierOutcomes == {ok \in [1..3 -> BOOLEAN] : MayFail \/ \E i \in 1..3 : ok[i]}

\* cmd.Run() of a git command: the call and whether it succeeded
GitRun(op, repoPath, path, ok) == [op |-> op, repo |-> repoPath, path |-> path, ok |-> ok]

\* a variant that runs all three commands whatever the earlier ones did
AddWorktreeAllTiers(repoPath, branch, targetPath, ok) ==
  [calls |-> [i \in 1..3 |-> GitRun(TierOps[i], repoPath, targetPath, ok[i])],
   err |-> ~ok[3]]

\* git.AddWorktree(repoPath, branch, targetPath): the commands it runs and
\* whether it returns an error
AddWorktree(repoPath, branch, targetPath, ok) ==
  IF ok[1]
  THEN [calls |-> <<GitRun(TierOps[1], repoPath, targetPath, ok[1])>>, err |-> FALSE]
  ELSE IF ok[2]
  THEN [calls |-> <<GitRun(TierOps[1], repoPath, targetPath, ok[1]),
                    GitRun(TierOps[2], repoPath, targetPath, ok[2])>>, err |-> FALSE]
  ELSE [calls |-> <<GitRun(TierOps[1], repoPath, targetPath, ok[1]),
                    GitRun(TierOps[2], repoPath, targetPath, ok[2]),
                    GitRun(TierOps[3], repoPath, targetPath, ok[3])>>, err |-> ~ok[3]]

\* RunE returned an error that names a path
FailsAt(msg, path) ==
  /\ Returns(Error(msg))
  /\ stderr' = Append(stderr, Warning(msg, path))

\* a variant that goes on to syncWorktrees whatever git.AddWorktree returned
CreateWorktreeThenSync(R, repoPath, targetPath, fault, added) ==
  /\ calls' = Append(calls, Call("MkdirAll", repoPath, GetDefaultWorktreesDir(repoPath)))
                 \o added.calls
  /\ git' = IF ~added.err
            THEN [git EXCEPT ![repoPath] =
                    Append(@, [path |-> targetPath, branch |-> addArgs.branch])]
            ELSE git
  /\ IF GetRepoByPath(R, repoPath) = {} THEN Fails("failed to get repo from database")
     ELSE /\ cur' = <<CHOOSE r \in GetRepoByPath(R, repoPath) : TRUE>>
          /\ ret' = "add"
          /\ pc' = "syncWorktrees"
          /\ UNCHANGED <<exit, stderr, cwdRepo, args, queue, gitWorktrees,
                         existingPaths, uiVars>>

\* runAddWithBranchFromRepo after os.Stat found nothing at targetPath, given
\* the repositories and the result of git.AddWorktree
CreateWorktree(R, repoPath, targetPath, fault, added) ==
  LET repo == GetRepoByPath(R, repoPath)
      mkdir == Call("MkdirAll", repoPath, GetDefaultWorktreesDir(repoPath))
  IN  /\ calls' = IF fault = "mkdir" THEN Append(calls, mkdir)
                  ELSE Append(calls, mkdir) \o added.calls
      /\ git' = IF fault # "mkdir" /\ ~added.err
                THEN [git EXCEPT ![repoPath] =
                        Append(@, [path |-> targetPath, branch |-> addArgs.branch])]
                ELSE git
      /\ IF fault = "mkdir" THEN Fails("failed to create worktrees directory")
         ELSE IF added.err THEN Fails("failed to create worktree")
         ELSE IF fault = "getRepo" \/ repo = {}
         THEN Fails("failed to get repo from database")
         ELSE /\ cur' = <<CHOOSE r \in repo : TRUE>>
              /\ ret' = "add"
              /\ pc' = "syncWorktrees"
              /\ UNCHANGED <<exit, stderr, cwdRepo, args, queue, gitWorktrees,
                             existingPaths, uiVars>>

\* runAddWithBranchFromRepo(repoPath, branch) up to its call of syncWorktrees
AddWithBranch ==
  /\ pc = "addWithBranch"
  /\ \E fault \in (IF MayFail THEN AddFaults ELSE {"none"}), ok \in TierOutcomes :
       LET repoPath == addArgs.repoPath
           e == ensureCurrentRepoInDB(repos, repoPath,
                                      IF fault \in DbFaults THEN fault ELSE "none")
           targetPath == TargetPath(repoPath, addArgs.branch)
       IN  /\ repos' = e.repos
           /\ IF e.err # "" THEN Fails(e.err) /\ UNCHANGED <<calls, git>>
              ELSE IF targetPath \in OnDisk
              THEN /\ FailsAt("worktree directory already exists", targetPath)
                   /\ UNCHANGED <<calls, git>>
              ELSE CreateWorktree(e.repos, repoPath, targetPath, fault,
                                  AddWorktree(repoPath, addArgs.branch, targetPath, ok))
  /\ UNCHANGED <<wts, stmt, cmd, stdout>>

\* runAddWithBranchFromRepo: syncWorktrees returned nil
SyncedAdd ==
  /\ pc = "synced"
  /\ ret = "add"
  /\ stdout' = Append(stdout, Line("cd", TargetPath(addArgs.repoPath, addArgs.branch)))
  /\ Succeeds
  /\ UNCHANGED <<catalogVars, git, cmd, stderr, calls>>

(* ------------------------------------------------------------------ *)
(* The program                                                          *)
(* ------------------------------------------------------------------ *)
Next ==
  /\ \/ \E r \in RepoPaths, p \in LinkedPaths : GitAdd(r, p)
     \/ \E r \in RepoPaths, p \in LinkedPaths : GitRemove(r, p)
     \/ StartRoot
     \/ StartRemove
     \/ StartAdd
     \/ Exit
     \/ Ensure
     \/ SyncAllRepos
     \/ SyncList
     \/ SyncUpsert
     \/ SyncSoftDelete
     \/ SyncedAll
     \/ Display
     \/ RootPick
     \/ DeleteWorktree
     \/ Refresh
     \/ Select
     \/ RemovePick
     \/ RunRemove
     \/ RunAdd
     \/ AddWorkflow
     \/ AddWithBranch
     \/ SyncedAdd
  /\ UNCHANGED tmux

Spec == Init /\ [][Next]_vars

(* ------------------------------------------------------------------ *)
(* The catalog on its own: any sequence of its operations, with any     *)
(* arguments (package db is the API; no invocation runs)                *)
(* ------------------------------------------------------------------ *)
DbPaths == {RepoA, TargetPath(RepoA, BrX)}
DbBranches == {BrX}
DbPathLists == {<<>>} \cup {<<p>> : p \in DbPaths}
                 \cup {<<p, q>> : <<p, q>> \in {t \in DbPaths \X DbPaths : t[1] # t[2]}}

\* an operation on table repos, or a read: table worktrees stays as it is
DbLeavesWorktrees(op, arg) ==
  /\ stmt' = Stmt(op, arg, wts, wts)
  /\ UNCHANGED wts

\* an operation that writes table worktrees
DbWritesWorktrees(op, arg, new) ==
  /\ wts' = new
  /\ stmt' = Stmt(op, arg, wts, new)
  /\ UNCHANGED repos

DbUpsertRepo ==
  \E path \in RepoPaths :
    /\ repos' = UpsertRepo(repos, path, GetRepoName(path), GetDefaultWorktreesDir(path), Past)
    /\ DbLeavesWorktrees("UpsertRepo", path)

DbSoftDeleteRepo ==
  \E id \in RowIds(repos) :
    /\ repos' = SoftDeleteRepo(repos, id)
    /\ DbLeavesWorktrees("SoftDeleteRepo", <<id>>)

DbUpdateLastSynced ==
  \E id \in RowIds(repos) :
    /\ repos' = UpdateLastSynced(repos, id)
    /\ DbLeavesWorktrees("UpdateLastSynced", <<id>>)

\* ensureCurrentRepoInDB for a main repository path, no call failing
DbEnsureRepo ==
  \E path \in RepoPaths :
    /\ repos' = ensureCurrentRepoInDB(repos, path, "none").repos
    /\ DbLeavesWorktrees("ensureCurrentRepoInDB", path)

\* any of the reads: a SELECT
DbRead ==
  /\ UNCHANGED repos
  /\ DbLeavesWorktrees("SELECT", <<>>)

DbUpsertWorktree ==
  \E repo_id \in RowIds(repos), path \in DbPaths, branch \in DbBranches, is_main \in BOOLEAN :
    DbWritesWorktrees("UpsertWorktree", path,
                      UpsertWorktree(wts, repo_id, path, branch, is_main))

DbSoftDeleteWorktree ==
  \E id \in RowIds(wts) :
    DbWritesWorktrees("SoftDeleteWorktree", <<id>>, SoftDeleteWorktree(wts, id))

DbSoftDeleteWorktreeByPath ==
  \E path \in DbPaths :
    DbWritesWorktrees("SoftDeleteWorktreeByPath", path, SoftDeleteWorktreeByPath(wts, path))

DbSoftDeleteMissingWorktrees ==
  \E repoID \in RowIds(repos), paths \in DbPathLists :
    DbWritesWorktrees("SoftDeleteMissingWorktrees", <<repoID>>,
                      SoftDeleteMissingWorktrees(wts, repoID, paths))

DbNext ==
  /\ \/ DbUpsertRepo
     \/ DbSoftDeleteRepo
     \/ DbUpdateLastSynced
     \/ DbEnsureRepo
     \/ DbRead
     \/ DbUpsertWorktree
     \/ DbSoftDeleteWorktree
     \/ DbSoftDeleteWorktreeByPath
     \/ DbSoftDeleteMissingWorktrees
  /\ UNCHANGED <<git, pc, ctlVars, syncVars, uiVars, outVars, tmux>>

SpecDb == Init /\ [][DbNext]_vars

(* ------------------------------------------------------------------ *)
(* The picker on its own: a tea program over a list from the catalog,   *)
(* with queries typed                                                   *)
(* ------------------------------------------------------------------ *)
RECURSIVE UpsertAll(_, _, _)
\* syncWorktrees: the upsert loop over the listing, all statements succeeding
UpsertAll(W, repoID, listing) ==
  IF listing = <<>> THEN W
  ELSE UpsertAll(UpsertWorktree(W, repoID, Head(listing).Path, Head(listing).Branch,
                                Head(listing).IsMain),
                 repoID, Tail(listing))

PathsOf(listing) == [i \in 1..Len(listing) |-> listing[i].Path]

\* syncWorktrees(database, repo) given the listing, all statements succeeding
syncWorktrees(W, repoID, listing) ==
  SoftDeleteMissingWorktrees(UpsertAll(W, repoID, listing), repoID, PathsOf(listing))

\* a catalog as wt leaves it: both repositories registered and synced, each
\* with one linked worktree
SampleGit == [r \in RepoPaths |-> <<[path |-> TargetPath(r, BrX), branch |-> BrX]>>]

SampleRepos ==
  UpsertRepo(UpsertRepo(<<>>, RepoA, GetRepoName(RepoA), GetDefaultWorktreesDir(RepoA), Past),
             RepoB, GetRepoName(RepoB), GetDefaultWorktreesDir(RepoB), Past)

SampleWts ==
  syncWorktrees(syncWorktrees(<<>>, 1, parseWorktreeList(Porcelain(RepoA, SampleGit[RepoA]))),
                2, parseWorktreeList(Porcelain(RepoB, SampleGit[RepoB])))

\* the longest query typed
MaxQuery == 2

\* the characters typed: x occurs in some labels, X and z in none
SelRunes == {"x", "X", "z"}

SelKeys == {"Esc", "CtrlC", "Tab", "CtrlD", "Enter", "Up", "Down", "CtrlP", "CtrlN",
            "Backspace", "Left"}

SelHeights == {8, 40}

\* the picker of wt (after Display) or of wt remove (after Select) is up
SelInit ==
  /\ repos = SampleRepos
  /\ wts = SampleWts
  /\ git = SampleGit
  /\ cmd \in {"root", "remove"}
  /\ cwdRepo \in {<<>>} \cup {<<r>> : r \in RepoPaths}
  /\ pc = IF cmd = "root" THEN "picker" ELSE "pickSimple"
  /\ worktrees = IF cmd = "root"
                 THEN ListAllWorktreesWithRepoFirst(wts, repos, currentRepoPath)
                 ELSE Removable(ListAllWorktrees(wts, repos))
  /\ m = newPickerModel(worktrees)
  /\ args = NoArgs
  /\ ret = ""
  /\ queue = <<>>
  /\ cur = <<>>
  /\ gitWorktrees = <<>>
  /\ existingPaths = <<>>
  /\ lastMsg = NoMsg
  /\ sel = <<>>
  /\ addArgs = NoAddArgs
  /\ exit = Running
  /\ stdout = <<>>
  /\ stderr = <<>>
  /\ calls = <<>>
  /\ stmt = NoStmt
  /\ tmux = NoSession

\* the tea program hands a message to Update
Handle(msg) ==
  /\ ~m.quitting
  /\ m' = Update(m, msg)
  /\ lastMsg' = msg
  /\ UNCHANGED <<catalogVars, git, pc, ctlVars, syncVars, worktrees, sel, addArgs, outVars>>

SelKey == \E k \in SelKeys : Handle(KeyMsg(k))

SelRune == \E c \in SelRunes : Len(m.input) < MaxQuery /\ Handle(RuneMsg(c))

SelWindowSize == \E h \in SelHeights : Handle(WindowSizeMsg(h))

\* runRoot: Tab with nothing under the cursor, the loop continues with a new picker
SelContinue ==
  /\ pc = "picker"
  /\ m.quitting
  /\ PickerResult(m).Action = ActionAdd
  /\ PickerResult(m).Worktree = NoWorktree
  /\ m' = newPickerModel(worktrees)
  /\ lastMsg' = NoMsg
  /\ UNCHANGED <<catalogVars, git, pc, ctlVars, syncVars, worktrees, sel, addArgs, outVars>>

SelNext ==
  /\ \/ SelKey
     \/ SelRune
     \/ SelWindowSize
     \/ SelContinue
  /\ UNCHANGED tmux

SpecSel == SelInit /\ [][SelNext]_vars

(* ------------------------------------------------------------------ *)
(* The listing by git on its own: any worktrees, detached ones included *)
(* ------------------------------------------------------------------ *)
\* the most linked worktrees of a repository
MaxLinked == 2

\* the linked worktrees a repository can have, as git lists them
LinkedLists ==
  {l \in UNION {[1..n -> [path : LinkedPaths, branch : {BrX, BrY, Detached}]] :
                  n \in 0..MaxLinked} :
     \A i, j \in 1..Len(l) : l[i].path = l[j].path => i = j}

\* no repository lists anything yet
ParseInit ==
  /\ git \in {g \in [RepoPaths -> LinkedLists] :
                \A i \in 1..Len(g[RepoA]), j \in 1..Len(g[RepoB]) :
                  g[RepoA][i].path # g[RepoB][j].path}
  /\ repos = <<>>
  /\ wts = <<>>
  /\ pc = "idle"
  /\ cmd = ""
  /\ cwdRepo = <<>>
  /\ args = NoArgs
  /\ ret = ""
  /\ queue = <<>>
  /\ cur = <<>>
  /\ gitWorktrees = <<>>
  /\ existingPaths = <<>>
  /\ worktrees = <<>>
  /\ m = NoPicker
  /\ lastMsg = NoMsg
  /\ sel = <<>>
  /\ addArgs = NoAddArgs
  /\ exit = Running
  /\ stdout = <<>>
  /\ stderr = <<>>
  /\ calls = <<>>
  /\ stmt = NoStmt
  /\ tmux = NoSession

\* git.ListWorktrees(repoPath)
ParseListing ==
  \E repoPath \in RepoPaths :
    /\ calls' = <<Call("ListWorktrees", repoPath, <<>>)>>
    /\ gitWorktrees' = ListWorktrees(repoPath)
    /\ UNCHANGED <<catalogVars, git, pc, ctlVars, ret, queue, cur, existingPaths, uiVars,
                   exit, stdout, stderr, tmux>>

SpecParse == ParseInit /\ [][ParseListing]_vars

(* ------------------------------------------------------------------ *)
(* The branch-input editor, key by key                                  *)
(* ------------------------------------------------------------------ *)
\* the longest text typed
MaxText == 3

InputRunes == {" ", "y"}

InputKeys == {"Esc", "CtrlC", "Tab", "Enter", "Backspace", "Up"}

\* unicode.IsSpace, of the characters a terminal sends
IsSpace(c) == c \in {" ", "\t", "\n", "\r"}

\* a variant that returns the text as typed
KeepSpace(str) == str

\* strings.TrimSpace
TrimSpace(str) ==
  IF \A i \in 1..Len(str) : IsSpace(str[i]) THEN <<>>
  ELSE SubSeq(str,
              CHOOSE i \in 1..Len(str) :
                ~IsSpace(str[i]) /\ \A j \in 1..(i - 1) : IsSpace(str[j]),
              CHOOSE i \in 1..Len(str) :
                ~IsSpace(str[i]) /\ \A j \in (i + 1)..Len(str) : IsSpace(str[j]))

\* newInputBranchModel: the text field is empty, no action yet
newInputBranchModel == [input |-> <<>>, action |-> ActionNone, quitting |-> FALSE]

\* inputBranchModel.Update
InputBranchUpdate(im, msg) ==
  IF msg.type = "Key" /\ msg.key \in {"CtrlC", "Esc"} THEN Quit(im, ActionNone)
  ELSE IF msg.type = "Key" /\ msg.key = "Tab" THEN Quit(im, ActionBack)
  ELSE IF msg.type = "Key" /\ msg.key = "Enter" THEN Quit(im, ActionSwitch)
  ELSE [im EXCEPT !.input = InputUpdate(im.input, msg)]

\* ui.InputBranch, from the final model of the tea program
InputBranch(im) ==
  IF im.action = ActionSwitch
  THEN [branch |-> TrimSpace(im.input), action |-> ActionNone]
  ELSE [branch |-> <<>>, action |-> im.action]

\* the editor is up: wt after Tab on a worktree, or wt add without a branch
InputInit ==
  /\ repos = SampleRepos
  /\ wts = SampleWts
  /\ git = SampleGit
  /\ cmd \in {"root", "add"}
  /\ cwdRepo \in (IF cmd = "root" THEN {<<>>} ELSE {}) \cup {<<r>> : r \in RepoPaths}
  /\ pc = "inputBranch"
  /\ worktrees = IF cmd = "root"
                 THEN ListAllWorktreesWithRepoFirst(wts, repos, currentRepoPath)
                 ELSE <<>>
  /\ sel \in IF cmd = "root"
              THEN {<<worktrees[i]>> : i \in 1..Len(worktrees)}
              ELSE {<<SourceWorktree(cwdRepo[1], GetRepoName(cwdRepo[1]))>>}
  /\ m = newInputBranchModel
  /\ args = NoArgs
  /\ ret = ""
  /\ queue = <<>>
  /\ cur = <<>>
  /\ gitWorktrees = <<>>
  /\ existingPaths = <<>>
  /\ lastMsg = NoMsg
  /\ addArgs = NoAddArgs
  /\ exit = Running
  /\ stdout = <<>>
  /\ stderr = <<>>
  /\ calls = <<>>
  /\ stmt = NoStmt
  /\ tmux = NoSession

\* the tea program hands a message to inputBranchModel.Update
InputHandle(msg) ==
  /\ pc = "inputBranch"
  /\ ~m.quitting
  /\ m' = InputBranchUpdate(m, msg)
  /\ lastMsg' = msg
  /\ UNCHANGED <<catalogVars, git, pc, ctlVars, syncVars, worktrees, sel, addArgs, outVars>>

InputKey == \E k \in InputKeys : InputHandle(KeyMsg(k))

InputRune == \E c \in InputRunes : Len(m.input) < MaxText /\ InputHandle(RuneMsg(c))

\* the tea program has quit: ui.InputBranch returns and runAddWorkflow goes on
InputDone ==
  /\ pc = "inputBranch"
  /\ m.quitting
  /\ runAddWorkflow(InputBranch(m))
  /\ UNCHANGED <<catalogVars, git, cmd, stdout, stderr, calls>>

InputNext ==
  /\ \/ InputKey
     \/ InputRune
     \/ InputDone
  /\ UNCHANGED tmux

SpecInput == InputInit /\ [][InputNext]_vars

(* ------------------------------------------------------------------ *)
(* The tmux wrappers, and tmux as they drive it                         *)
(* ------------------------------------------------------------------ *)
\* the highest window index a session starts with
MaxIndex == 3

Session == <<"s">>

WindowNames == {<<"a">>, <<"b">>}

\* the name tmux gives a window that was made without -n
ShellName == <<"z">>

\* a session has at least one window, and one of its windows is current
Sessions ==
  {t \in [windows : {{[idx |-> i, name |-> ShellName] : i \in S} :
                       S \in SUBSET (0..MaxIndex) \ {{}}},
          current : 0..MaxIndex] :
     \E w \in t.windows : w.idx = t.current}

Indexes(t) == {w.idx : w \in t.windows}

\* the lowest index no window has
FreeIndex(t) == CHOOSE i \in 0..(MaxIndex + 2) :
                  i \notin Indexes(t) /\ \A j \in 0..(i - 1) : j \in Indexes(t)

\* tmux new-window -t target: the indexes tmux may take for the new window. A
\* target that ends in a colon names the session, and tmux takes the next free
\* index; one without a colon is tried as a window first, the index after the
\* current window, and then as a session
NewWindowIndexes(t, target) ==
  IF target[Len(target)] = ":" THEN {FreeIndex(t)}
  ELSE {FreeIndex(t), t.current + 1}

\* the target CreateWindow hands to new-window -t
CreateWindowTarget(session) == session

\* cmd.Run() of a tmux command: the command and whether it succeeded
TmuxRun(op, target, name, ok) == [op |-> op, target |-> target, name |-> name, ok |-> ok]

\* WindowExists(session, windowName): list-windows prints nothing if there is
\* no session
WindowExists(t, windowName) == \E w \in t.windows : w.name = windowName

\* CreateWindow(session, windowName, path, onEnter), tmux taking index idx
CreateWindow(session, windowName, idx) ==
  /\ calls' = <<TmuxRun("new-window", CreateWindowTarget(session), windowName,
                        idx \notin Indexes(tmux))>>
  /\ tmux' = IF idx \in Indexes(tmux) THEN tmux
             ELSE [windows |-> tmux.windows \cup {[idx |-> idx, name |-> windowName]},
                   current |-> idx]

\* KillWindow(session, windowName): tmux kills the one window of that name;
\* the session ends with its last window
KillWindow(session, windowName) ==
  LET named == {w \in tmux.windows : w.name = windowName}
      left == tmux.windows \ named
  IN  /\ calls' = <<TmuxRun("kill-window", session \o <<":">> \o windowName, windowName,
                            Cardinality(named) = 1)>>
      /\ IF Cardinality(named) # 1 THEN tmux' = tmux
         ELSE IF left = {} THEN tmux' = NoSession
         ELSE \E c \in {w.idx : w \in left} :
                /\ tmux.current \in {w.idx : w \in left} => c = tmux.current
                /\ tmux' = [windows |-> left, current |-> c]

\* a session is up
TmuxInit ==
  /\ tmux \in Sessions
  /\ repos = <<>>
  /\ wts = <<>>
  /\ git = [r \in RepoPaths |-> <<>>]
  /\ pc = "idle"
  /\ cmd = ""
  /\ cwdRepo = <<>>
  /\ args = NoArgs
  /\ ret = ""
  /\ queue = <<>>
  /\ cur = <<>>
  /\ gitWorktrees = <<>>
  /\ existingPaths = <<>>
  /\ worktrees = <<>>
  /\ m = NoPicker
  /\ lastMsg = NoMsg
  /\ sel = <<>>
  /\ addArgs = NoAddArgs
  /\ exit = Running
  /\ stdout = <<>>
  /\ stderr = <<>>
  /\ calls = <<>>
  /\ stmt = NoStmt

TmuxLeaves == UNCHANGED <<catalogVars, git, pc, ctlVars, syncVars, uiVars, exit, stdout, stderr>>

TmuxCreateWindow ==
  /\ tmux # NoSession
  /\ \E windowName \in WindowNames, idx \in NewWindowIndexes(tmux, CreateWindowTarget(Session)) :
       /\ idx <= MaxIndex + 1
       /\ CreateWindow(Session, windowName, idx)
  /\ TmuxLeaves

TmuxKillWindow ==
  /\ tmux # NoSession
  /\ \E windowName \in WindowNames : KillWindow(Session, windowName)
  /\ TmuxLeaves

\* the user goes to another window
TmuxSelectWindow ==
  /\ \E i \in Indexes(tmux) :
       /\ i # tmux.current
       /\ tmux' = [tmux EXCEPT !.current = i]
       /\ calls' = <<TmuxRun("select-window", Session, <<>>, TRUE)>>
  /\ TmuxLeaves

TmuxNext ==
  \/ TmuxCreateWindow
  \/ TmuxKillWindow
  \/ TmuxSelectWindow

SpecTmux == TmuxInit /\ [][TmuxNext]_vars

(* ------------------------------------------------------------------ *)
(* The listing of the catalog on its own: repositories of which two may *)
(* have the same directory name, synced and then listed                 *)
(* ------------------------------------------------------------------ *)
\* a repository whose directory has the name of /a
RepoTwin == <<"/", "c", "/", "a">>

ListRepoPaths == RepoPaths \cup {RepoTwin}

\* the repositories registered, in the order wt first saw them
ListCatalogs ==
  {UpsertRepo(UpsertRepo(<<>>, p, GetRepoName(p), GetDefaultWorktreesDir(p), Past),
              q, GetRepoName(q), GetDefaultWorktreesDir(q), Past) :
     <<p, q>> \in {t \in ListRepoPaths \X ListRepoPaths : t[1] # t[2]}}

\* what git may list as the linked worktrees of a repository
ListLinked(repoPath) ==
  {<<>>,
   <<[path |-> TargetPath(repoPath, BrX), branch |-> BrX]>>,
   <<[path |-> TargetPath(repoPath, BrY), branch |-> BrY]>>,
   <<[path |-> TargetPath(repoPath, BrY), branch |-> BrY],
     [path |-> TargetPath(repoPath, BrX), branch |-> BrX]>>}

ListInit ==
  /\ repos \in ListCatalogs
  /\ wts = <<>>
  /\ git = [r \in RepoPaths |-> <<>>]
  /\ pc = "idle"
  /\ cmd = ""
  /\ cwdRepo = <<>>
  /\ args = NoArgs
  /\ ret = ""
  /\ queue = <<>>
  /\ cur = <<>>
  /\ gitWorktrees = <<>>
  /\ existingPaths = <<>>
  /\ worktrees = <<>>
  /\ m = NoPicker
  /\ lastMsg = NoMsg
  /\ sel = <<>>
  /\ addArgs = NoAddArgs
  /\ exit = Running
  /\ stdout = <<>>
  /\ stderr = <<>>
  /\ calls = <<>>
  /\ stmt = NoStmt
  /\ tmux = NoSession

\* syncWorktrees for one repository, git listing its main worktree and some
\* linked ones; what was listed before is of no use any more
ListSync ==
  \E id \in RowIds(repos) :
    \E linked \in ListLinked(repos[id].path) :
      /\ wts' = syncWorktrees(wts, id, parseWorktreeList(Porcelain(repos[id].path, linked)))
      /\ worktrees' = <<>>
      /\ cwdRepo' = <<>>
      /\ UNCHANGED <<repos, stmt, git, pc, cmd, args, syncVars, m, lastMsg, sel, addArgs,
                     outVars, tmux>>

\* db.ListAllWorktrees
ListAll ==
  /\ worktrees' = ListAllWorktrees(wts, repos)
  /\ cwdRepo' = <<>>
  /\ UNCHANGED <<catalogVars, git, pc, cmd, args, syncVars, m, lastMsg, sel, addArgs,
                 outVars, tmux>>

\* db.ListAllWorktreesWithRepoFirst, from inside one of the repositories
ListAllWithRepoFirst ==
  \E id \in RowIds(repos) :
    /\ worktrees' = ListAllWorktreesWithRepoFirst(wts, repos, repos[id].path)
    /\ cwdRepo' = <<repos[id].path>>
    /\ UNCHANGED <<catalogVars, git, pc, cmd, args, syncVars, m, lastMsg, sel, addArgs,
                   outVars, tmux>>

ListNext ==
  \/ ListSync
  \/ ListAll
  \/ ListAllWithRepoFirst

SpecList == ListInit /\ [][ListNext]_vars

(* ------------------------------------------------------------------ *)
(* Properties                                                           *)
(* ------------------------------------------------------------------ *)
\* the paths of the non-tombstoned rows of table W owned by repository repoID
LivePaths(W, repoID) ==
  {W[i].path : i \in {j \in RowIds(W) : W[j].repo_id = repoID /\ ~W[j].deleted}}

\* C1 (convergence): when syncWorktrees has returned nil for a repository, the
\* paths of the repository's non-tombstoned rows are exactly the paths of the
\* listing it obtained, the empty listing included
C1_Convergence ==
  pc = "synced" => LivePaths(wts, cur[1].ID) = Range(PathsOf(gitWorktrees))

\* a pass over an empty listing has tombstoned the rows of the repository
C1_Witness ==
  /\ pc = "synced"
  /\ gitWorktrees = <<>>
  /\ stmt.op = "SoftDeleteMissingWorktrees"
  /\ stmt.set # {}

\* C2 (idempotence): when syncWorktrees has returned nil, a second pass with
\* the same listing inserts no row, tombstones no row and leaves every row
\* (owner, path, branch, main flag, tombstone) as it is
C2_Idempotence ==
  pc = "synced" =>
    /\ Len(UpsertAll(wts, cur[1].ID, gitWorktrees)) = Len(wts)
    /\ MissingIds(UpsertAll(wts, cur[1].ID, gitWorktrees), cur[1].ID,
                  PathsOf(gitWorktrees)) = {}
    /\ syncWorktrees(wts, cur[1].ID, gitWorktrees) = wts

\* the first pass inserted or resurrected, and tombstoned, and the table holds
\* tombstoned rows next to the listed ones
C2_Witness ==
  /\ pc = "synced"
  /\ gitWorktrees # <<>>
  /\ stmt.set # {}
  /\ \E i \in RowIds(wts) : wts[i].deleted /\ wts[i].repo_id # cur[1].ID

\* the paths of the rows whose main flag is set
MainPaths == {wts[i].path : i \in {j \in RowIds(wts) : wts[j].is_main}}

RemoveOps == {"RemoveWorktree", "RemoveWorktreeForce"}

\* C3 (main protection): no step runs git worktree remove, forced or not, on
\* the path of a worktree whose main flag is set; no SoftDeleteWorktree of a
\* workflow tombstones such a row; and the picker's delete key never hands such
\* a worktree to deleteWorktree
C3_MainProtection ==
  [][/\ \A k \in (Len(calls) + 1)..Len(calls') :
          calls'[k].op \in RemoveOps => calls'[k].path \notin MainPaths
     /\ stmt'.op = "SoftDeleteWorktree" =>
          \A i \in RowIds(wts) : ~wts[i].deleted /\ wts'[i].deleted => ~wts[i].is_main
     /\ pc' = "deleteWorktree" => ~sel'[1].IsMain]_vars

\* wt remove with the path of a main worktree has ended with its error, having
\* removed nothing
C3_Witness ==
  /\ exit = Error("cannot remove the main worktree")
  /\ \A k \in 1..Len(calls) : calls[k].op \notin RemoveOps
  /\ \E i \in RowIds(wts) : wts[i].is_main /\ ~wts[i].deleted

\* C4 (tombstone exclusivity): in any sequence of catalog operations, a step
\* that takes a worktree row from tombstoned to non-tombstoned is an
\* UpsertWorktree with the path of that row; no other operation does it
C4_TombstoneExclusivity ==
  [][\A i \in RowIds(wts) :
       wts[i].deleted /\ ~wts'[i].deleted
         => stmt'.op = "UpsertWorktree" /\ stmt'.arg = wts[i].path]_vars

\* an UpsertWorktree has cleared a tombstone while another row stays tombstoned
C4_Witness ==
  /\ stmt.op = "UpsertWorktree"
  /\ stmt.cleared # {}
  /\ \E i \in RowIds(wts) : wts[i].deleted

\* the rows of a list of worktrees are live, and so are their repositories
AllVisible(list) ==
  \A k \in 1..Len(list) :
    /\ ~list[k].Deleted
    /\ ~wts[list[k].ID].deleted
    /\ ~repos[list[k].RepoID].deleted

\* C7 (reads): in every catalog state GetWorktreeByPath, GetRepoByPath,
\* ListRepos, ListWorktreesByRepo and the two ListAllWorktrees queries return
\* no tombstoned row, and the ListAllWorktrees queries return no worktree of a
\* tombstoned repository
C7_ReadsSkipTombstones ==
  /\ \A path \in DbPaths \cup RepoPaths :
       \A w \in GetWorktreeByPath(wts, repos, path) : ~w.Deleted /\ ~wts[w.ID].deleted
  /\ \A path \in DbPaths \cup RepoPaths :
       \A r \in GetRepoByPath(repos, path) : ~r.Deleted /\ ~repos[r.ID].deleted
  /\ \A k \in 1..Len(ListRepos(repos)) :
       ~ListRepos(repos)[k].Deleted /\ ~repos[ListRepos(repos)[k].ID].deleted
  /\ \A id \in RowIds(repos) :
       \A k \in 1..Len(ListWorktreesByRepo(wts, repos, id)) :
         ~wts[ListWorktreesByRepo(wts, repos, id)[k].ID].deleted
  /\ AllVisible(ListAllWorktrees(wts, repos))
  /\ \A c \in RepoPaths \cup {<<>>} :
       AllVisible(ListAllWorktreesWithRepoFirst(wts, repos, c))

\* a live worktree of a tombstoned repository next to a live worktree of a live
\* repository, which the list returns
C7_Witness ==
  /\ \E i \in RowIds(wts) : ~wts[i].deleted /\ repos[wts[i].repo_id].deleted
  /\ Len(ListAllWorktrees(wts, repos)) = 1
  /\ Len(wts) = 2

\* the repositories syncWorktrees was called for in this invocation, in order
Attempts ==
  LET listings == SelectSeq(calls, LAMBDA c : c.op = "ListWorktrees")
  IN  [k \in 1..Len(listings) |-> listings[k].repo]

\* the non-deleted repositories, as syncAllRepos lists them
Listed == [k \in 1..Len(ListRepos(repos)) |-> ListRepos(repos)[k].Path]

Warned(msg, name) == \E k \in 1..Len(stderr) : stderr[k] = Warning(msg, name)

\* syncAllRepos has returned nil
SyncAllReturned == pc \in {"display", "select"}

\* C5 as stated: when syncAllRepos has returned, every non-deleted repository
\* was attempted exactly once, in order, and a repository's last-synced
\* timestamp was updated in this pass if and only if its syncWorktrees succeeded
C5_Original ==
  SyncAllReturned =>
    /\ Attempts = Listed
    /\ \A k \in 1..Len(ListRepos(repos)) :
         ListRepos(repos)[k].LastSyncedAt = Now
           <=> ~Warned("warning: failed to sync", ListRepos(repos)[k].Name)

\* C5 (amended): when syncAllRepos has listed the repositories and returned,
\* every non-deleted repository was attempted exactly once, in the order of the
\* listing, whatever failed before; a repository's last-synced timestamp was
\* updated in this pass if and only if its syncWorktrees succeeded and the
\* timestamp update itself did not fail
C5_PartialFailure ==
  SyncAllReturned =>
    /\ Attempts = Listed
    /\ \A k \in 1..Len(ListRepos(repos)) :
         ListRepos(repos)[k].LastSyncedAt = Now
           <=> /\ ~Warned("warning: failed to sync", ListRepos(repos)[k].Name)
               /\ ~Warned("warning: failed to update sync timestamp",
                          ListRepos(repos)[k].Name)

\* the first of two repositories failed to sync, the second was synced and its
\* timestamp updated
C5_Witness ==
  /\ SyncAllReturned
  /\ Len(ListRepos(repos)) = 2
  /\ Warned("warning: failed to sync", ListRepos(repos)[1].Name)
  /\ ListRepos(repos)[1].LastSyncedAt = Past
  /\ ListRepos(repos)[2].LastSyncedAt = Now

\* C6 as stated: no invocation ends with an error returned for a failure of
\* the reconciler (listing the repositories, or syncing one)
C6_Original ==
  exit \notin {Error("failed to list repos"), Error("failed to sync worktrees")}

\* syncWorktrees runs, called by caller
InSync(caller) == ret = caller /\ pc \in {"syncWorktrees", "upsert", "synced"}

\* C6 (amended): a failure inside syncWorktrees called by syncAllRepos (the
\* listing by git, an upsert, the tombstoning) or of the timestamp update is
\* printed as a warning and the invocation goes on with the next repository;
\* a failure to list the repositories ends wt and wt remove with an error, and
\* a failure of the re-sync of wt add ends the invocation with an error
C6_ReconcilerFailures ==
  [][Len(stderr') > Len(stderr) =>
       /\ InSync("syncAll") =>
            /\ stderr'[Len(stderr')].msg \in {"warning: failed to sync",
                                               "warning: failed to update sync timestamp"}
            /\ exit' = Running
            /\ pc' \in {"syncWorktrees", AfterSyncAll}
       /\ pc = "syncAllRepos" => exit' = Error("failed to list repos")
       /\ InSync("add") => exit' = Error("failed to sync worktrees")]_vars

\* the picker of wt is up after a repository failed to sync
C6_Witness ==
  /\ pc = "picker"
  /\ exit = Running
  /\ \E k \in 1..Len(stderr) : stderr[k].msg = "warning: failed to sync"

\* the non-tombstoned rows of repository id whose main flag is set
LiveMains(id) ==
  {i \in RowIds(wts) : wts[i].repo_id = id /\ wts[i].is_main /\ ~wts[i].deleted}

\* C8 (main flag) as stated: in every state, between the statements of a sync
\* pass too, at most one non-tombstoned worktree of a repository has the main
\* flag set, and it is the first entry of what git lists for the repository
C8_MainFlag ==
  \A id \in RowIds(repos) :
    /\ Cardinality(LiveMains(id)) <= 1
    /\ \A i \in LiveMains(id) :
         /\ ListWorktrees(repos[id].path) # <<>>
         /\ ListWorktrees(repos[id].path)[1].Path = wts[i].path

\* C9 (cursor): in every state of the picker, after query edits, navigation
\* keys, window sizes and keys that do nothing, a non-empty filtered list has
\* the cursor inside it: 0 <= cursor < len(filtered)
C9_CursorInRange ==
  Len(m.filtered) > 0 => 0 <= m.cursor /\ m.cursor < Len(m.filtered)

\* a typed character has shortened the filtered list and the cursor, which was
\* beyond its new end, is on its last entry
C9_Witness ==
  /\ lastMsg.key = "Runes"
  /\ Len(m.filtered) > 1
  /\ Len(m.filtered) < Len(m.worktrees)
  /\ m.cursor = Len(m.filtered) - 1

\* C10 (empty query): whenever the query is empty, at the start and after edits
\* that empty it again, filtered is the identity 0..n-1 over the full list
C10_EmptyQueryIdentity ==
  m.input = <<>> => m.filtered = AllIndexes(m.worktrees)

\* a backspace has left the query empty, with the cursor where a shorter
\* filtered list had put it
C10_Witness ==
  /\ lastMsg = KeyMsg("Backspace")
  /\ m.input = <<>>
  /\ Len(m.worktrees) = 3
  /\ m.cursor = 1
  /\ m.filtered = AllIndexes(m.worktrees)

RECURSIVE IsSubsequence(_, _)
\* the characters of q occur in s, in order
IsSubsequence(q, s) ==
  IF q = <<>> THEN TRUE
  ELSE IF s = <<>> THEN FALSE
  ELSE IF Head(q) = Head(s) THEN IsSubsequence(Tail(q), Tail(s))
  ELSE IsSubsequence(q, Tail(s))

RECURSIVE IsFoldedSubsequence(_, _)
\* the characters of q occur in s, in order, letter case disregarded
IsFoldedSubsequence(q, s) ==
  IF q = <<>> THEN TRUE
  ELSE IF s = <<>> THEN FALSE
  ELSE IF ToLower(Head(q)) = ToLower(Head(s)) THEN IsFoldedSubsequence(Tail(q), Tail(s))
  ELSE IsFoldedSubsequence(q, Tail(s))

\* filtered holds valid indexes into the full list, each at most once
FilteredIndexesValid ==
  /\ \A k \in 1..Len(m.filtered) : 0 <= m.filtered[k] /\ m.filtered[k] < Len(m.worktrees)
  /\ \A k, l \in 1..Len(m.filtered) : m.filtered[k] = m.filtered[l] => k = l

\* C11 as stated: with a non-empty query, the label "{repo}/{branch}[ [main]]
\* {path}" of every filtered item contains the characters of the query, in
\* order, as a subsequence, and filtered holds valid indexes, each once
C11_Original ==
  m.input # <<>> =>
    /\ FilteredIndexesValid
    /\ \A k \in 1..Len(m.filtered) :
         IsSubsequence(m.input, At(worktreeStrings(m), m.filtered[k]))

\* C11 (amended): with a non-empty query, the label of every filtered item
\* contains the characters of the query, in order, as a subsequence when
\* letter case is disregarded, and filtered holds valid indexes, each once
C11_FilterSound ==
  m.input # <<>> =>
    /\ FilteredIndexesValid
    /\ \A k \in 1..Len(m.filtered) :
         IsFoldedSubsequence(m.input, At(worktreeStrings(m), m.filtered[k]))

\* a two-character query with a capital has kept some items and dropped others
C11_Witness ==
  /\ Len(m.input) = 2
  /\ m.input[1] = "X"
  /\ Len(m.filtered) > 0
  /\ Len(m.filtered) < Len(m.worktrees)

\* the item under the cursor exists and lacks the main flag
Deletable(pm) ==
  Len(pm.filtered) > 0 /\ ~At(pm.worktrees, At(pm.filtered, pm.cursor)).IsMain

\* C12: from any state of the selector, the delete key sets the action to
\* Delete and ends the loop if and only if filtered is non-empty and the item
\* under the cursor lacks the main flag; otherwise query, filtered, cursor and
\* action are unchanged and the loop goes on
C12_DeleteKey ==
  ~m.quitting =>
    IF Deletable(m)
    THEN /\ Update(m, KeyMsg("CtrlD")).action = ActionDelete
         /\ Update(m, KeyMsg("CtrlD")).quitting
    ELSE Update(m, KeyMsg("CtrlD")) = m

\* the delete key has ended the loop on a list narrowed by a query
C12_Witness ==
  /\ lastMsg = KeyMsg("CtrlD")
  /\ m.quitting
  /\ m.action = ActionDelete
  /\ m.input # <<>>
  /\ Len(m.filtered) > 1

\* C13: from any state of the selector, one with an empty filtered list
\* included, the create key sets the action to Add and ends the loop
C13_CreateKey ==
  ~m.quitting =>
    /\ Update(m, KeyMsg("Tab")).action = ActionAdd
    /\ Update(m, KeyMsg("Tab")).quitting

\* the create key has ended the loop with an empty filtered list
C13_Witness ==
  /\ lastMsg = KeyMsg("Tab")
  /\ m.quitting
  /\ m.action = ActionAdd
  /\ m.filtered = <<>>

\* C14: inside a repository, when the listing after the sync is empty, and in
\* the selector, when the create key is pressed on an empty filtered list, the
\* program goes on to the branch-name prompt of the Add workflow rather than
\* failing or doing nothing
C14_Bootstrapping ==
  [][/\ (/\ pc = "display"
         /\ cwdRepo # <<>>
         /\ ListAllWorktreesWithRepoFirst(wts, repos, currentRepoPath) = <<>>
         /\ exit'.msg # "failed to list worktrees")
        => pc' = "inputBranch"
     /\ (/\ pc = "picker"
         /\ m.quitting
         /\ m.action = ActionAdd
         /\ m.filtered = <<>>)
        => pc' = "inputBranch"]_vars

\* C15: the selector returns a worktree if and only if the action is Switch,
\* Add or Delete and filtered is non-empty, and that worktree is the one at
\* full[filtered[cursor]]; so a returned Switch or Delete always carries a
\* worktree, and a returned Delete never carries a main worktree
C15_SelectorOutput ==
  (pc = "picker" /\ m.quitting) =>
    /\ PickerResult(m).Action = m.action
    /\ PickerResult(m).Worktree # NoWorktree
         <=> (m.action \in {ActionSwitch, ActionAdd, ActionDelete} /\ m.filtered # <<>>)
    /\ PickerResult(m).Worktree # NoWorktree
         => PickerResult(m).Worktree = <<m.worktrees[m.filtered[m.cursor + 1] + 1]>>
    /\ m.action \in {ActionSwitch, ActionDelete} => PickerResult(m).Worktree # NoWorktree
    /\ m.action = ActionDelete => ~PickerResult(m).Worktree[1].IsMain

\* the selector has returned Add with the worktree under the cursor of a
\* narrowed list
C15_Witness ==
  /\ pc = "picker"
  /\ m.quitting
  /\ m.action = ActionAdd
  /\ m.input # <<>>
  /\ PickerResult(m).Worktree # NoWorktree

\* the sort key of a listed worktree: 0 if its repository is the named one
\* else 1, then the repository name, then 0 for the main flag else 1, then
\* the branch
RepoRank(named, w) == IF w.RepoPath = named THEN 0 ELSE 1

MainRank(w) == IF w.IsMain THEN 0 ELSE 1

OrderLeq(named, a, b) ==
  \/ RepoRank(named, a) < RepoRank(named, b)
  \/ /\ RepoRank(named, a) = RepoRank(named, b)
     /\ \/ StrLess(a.RepoName, b.RepoName)
        \/ /\ a.RepoName = b.RepoName
           /\ \/ MainRank(a) < MainRank(b)
              \/ /\ MainRank(a) = MainRank(b)
                 /\ ~StrLess(b.Branch, a.Branch)

\* the list is in the order of the key, the named repository's worktrees first
InListingOrder(named, list) ==
  \A i, j \in 1..Len(list) :
    i < j => /\ OrderLeq(named, list[i], list[j])
             /\ list[j].RepoPath = named => list[i].RepoPath = named

\* C16: the listing of the non-deleted worktrees, given a repository, is
\* sorted lexicographically by (0 if the owning repository's path is the given
\* one else 1, repository name ascending, main flag descending, branch
\* ascending); so the current repository's worktrees come before all others
C16_ListingOrder ==
  \A named \in RepoPaths \cup {<<>>} :
    InListingOrder(named, ListAllWorktreesWithRepoFirst(wts, repos, named))

\* the picker shows a list that starts with the worktrees of /b, where wt
\* runs, followed by those of /a
C16_Witness ==
  /\ pc = "picker"
  /\ cwdRepo = <<RepoB>>
  /\ Len(worktrees) >= 3
  /\ worktrees[1].RepoPath = RepoB
  /\ worktrees[Len(worktrees)].RepoPath = RepoA
  /\ worktrees[Len(worktrees) - 1].RepoPath = RepoA

\* name is branch with every "/" replaced by "-"
IsSafeNameOf(name, branch) ==
  /\ Len(name) = Len(branch)
  /\ \A i \in 1..Len(branch) : name[i] = IF branch[i] = "/" THEN "-" ELSE branch[i]

\* the calls that create something: the git worktree add commands and MkdirAll
CreationCalls(log) ==
  {i \in 1..Len(log) : log[i].op = "MkdirAll" \/ \E t \in 1..3 : log[i].op = TierOps[t]}

AddTiers == SelectSeq(calls, LAMBDA c : \E t \in 1..3 : c.op = TierOps[t])

\* C18: the Add workflow tries to create the worktree from the existing ref
\* first, from origin/<branch> as a new branch only if that failed, and from
\* HEAD as a new branch only if the second failed; no later tier is tried
\* after an earlier one succeeded, and creation is reported as failed if and
\* only if all three failed
C18_TierOrdering ==
  /\ Len(AddTiers) <= 3
  /\ \A i \in 1..Len(AddTiers) :
       /\ AddTiers[i].op = TierOps[i]
       /\ i < Len(AddTiers) => ~AddTiers[i].ok
  /\ (AddTiers # <<>> /\ ~AddTiers[Len(AddTiers)].ok) => Len(AddTiers) = 3
  /\ exit = Error("failed to create worktree")
       <=> (Len(AddTiers) = 3 /\ ~AddTiers[3].ok)

\* the third tier created the worktree after the first two failed, and the
\* workflow went on to its end
C18_Witness ==
  /\ Len(AddTiers) = 3
  /\ AddTiers[3].ok
  /\ pc = "done"
  /\ exit = Ok

\* git.AddWorktree has run and returned nil
Created == AddTiers # <<>> /\ AddTiers[Len(AddTiers)].ok

\* the listings by git that follow a git worktree add command in the
\* invocation: the re-sync of the Add workflow
ReSyncs ==
  {i \in 1..Len(calls) :
     /\ calls[i].op = "ListWorktrees"
     /\ \E j \in 1..(i - 1), t \in 1..3 : calls[j].op = TierOps[t]}

\* path is the path of a non-tombstoned row of the repository at repoPath
IsLiveWorktreeOf(path, repoPath) ==
  \E r \in GetRepoByPath(repos, repoPath) : path \in LivePaths(wts, r.ID)

\* C19: the Add workflow re-syncs the source repository only after the
\* creation succeeded and before it prints the cd directive; when both
\* succeed, the target path is a non-deleted catalog worktree of the source
\* repository when the directive is printed; when the creation fails there is
\* neither a re-sync nor a directive
C19_AddCompletion ==
  /\ (ReSyncs # {} \/ InSync("add")) => Created
  /\ InSync("add") => stdout = <<>>
  /\ (AddTiers # <<>> /\ stdout # <<>>) =>
       /\ Created
       /\ ReSyncs # {}
       /\ stdout = <<Line("cd", AddTiers[1].path)>>
       /\ IsLiveWorktreeOf(AddTiers[1].path, AddTiers[1].repo)
  /\ (AddTiers # <<>> /\ ~Created) => (ReSyncs = {} /\ stdout = <<>> /\ ~InSync("add"))

\* the Add workflow, entered from the picker of wt, has printed its directive
\* for a worktree of the bare repository /b
C19_Witness ==
  /\ cmd = "root"
  /\ AddTiers # <<>>
  /\ AddTiers[1].repo = RepoB
  /\ stdout # <<>>

\* the step of runRemove that follows the main-worktree check
RemoveStep == pc = "runRemove" /\ ~sel[1].IsMain

\* in that step: the user confirmed and git was asked to remove the worktree
RemovalAsked == Len(calls') = Len(calls) + 1

\* in that step: git removed the worktree
RemovalDone == RemovalAsked /\ git' = Removed(sel[1].RepoPath, sel[1].Path) /\ git' # git

\* in that step: the row of the worktree was tombstoned
Tombstoned == ~wts[sel[1].ID].deleted /\ wts'[sel[1].ID].deleted

\* in that step: the removal git is asked for is the forced one if and only if
\* --force is set, and a failed removal that was not forced ends with an
\* error that hints at --force, with no second removal and the row as it was
RemovalAsOption ==
  /\ Len(calls') <= Len(calls) + 1
  /\ RemovalAsked =>
       /\ calls'[Len(calls')].op \in {"RemoveWorktree", "RemoveWorktreeForce"}
       /\ calls'[Len(calls')].op = "RemoveWorktreeForce" <=> args.force
       /\ calls'[Len(calls')].path = sel[1].Path
  /\ (RemovalAsked /\ ~RemovalDone /\ ~args.force) =>
       /\ exit' = Error("failed to remove worktree (use --force to force removal)")
       /\ wts' = wts

\* C20 as stated: in wt remove, after confirmation, the worktree is
\* tombstoned if and only if the external removal (forced if and only if the
\* force option is set) succeeded; a failed removal that was not forced
\* returns an error that hints at forced removal, attempts no forced removal
\* and leaves the row non-deleted
C20_Original ==
  [][RemoveStep => (RemovalAsOption /\ (Tombstoned <=> RemovalDone))]_vars

\* C20 (amended): the worktree is tombstoned if and only if the external
\* removal (forced if and only if the force option is set) succeeded and the
\* catalog update that follows it did not fail; when that update fails the
\* command ends with "failed to update database" and the rows are as they
\* were; the rest as stated
C20_RemoveOutcome ==
  [][RemoveStep =>
       /\ RemovalAsOption
       /\ Tombstoned <=> (RemovalDone /\ exit' # Error("failed to update database"))
       /\ ~Tombstoned => wts' = wts
       /\ Tombstoned => exit' = Ok]_vars

\* wt remove without --force has failed to remove a worktree, whose row is
\* still there
C20_Witness ==
  /\ cmd = "remove"
  /\ pc = "done"
  /\ exit = Error("failed to remove worktree (use --force to force removal)")
  /\ calls[Len(calls)].op = "RemoveWorktree"
  /\ \E i \in RowIds(wts) : wts[i].path = calls[Len(calls)].path /\ ~wts[i].deleted

\* the ways a removal can go, whatever the state
AllRemovalOutcomes == {"declined", "confirmFailed", "removed", "forced", "removeFailed", "dbFailed"}

\* two workflows did the same: both failed or neither, the same removals were
\* asked of git, and git and the rows end the same
SameOutcome(a, b) ==
  /\ (a.err = "") <=> (b.err = "")
  /\ a.calls = b.calls
  /\ a.git = b.git
  /\ a.wts = b.wts

\* a worktree is about to be deleted inline or removed
RemovalAhead == pc \in {"deleteWorktree", "runRemove"}

ListedPaths(list) == {list[k].Path : k \in 1..Len(list)}

\* C22: when an inline delete has completed (the worktree removed, the
\* confirmation declined, or a failure), root queries the catalog again and
\* shows the selector with the new list if it is non-empty, and exits
\* successfully if it is empty; a worktree the delete tombstoned is not in the
\* new list
C22_DeleteContinues ==
  [][/\ pc = "deleteWorktree" => pc' = "refresh"
     /\ (pc = "refresh" /\ exit'.msg # "failed to list worktrees") =>
          IF ListAllWorktreesWithRepoFirst(wts, repos, currentRepoPath) # <<>>
          THEN /\ pc' = "picker"
               /\ worktrees' = ListAllWorktreesWithRepoFirst(wts, repos, currentRepoPath)
               /\ m' = newPickerModel(worktrees')
               /\ wts[sel[1].ID].deleted => sel[1].Path \notin ListedPaths(worktrees')
          ELSE pc' = "done" /\ exit' = Ok]_vars

\* the selector is shown again after an inline delete that tombstoned a
\* worktree of the list
C22_Witness ==
  /\ pc = "picker"
  /\ sel # <<>>
  /\ wts[sel[1].ID].deleted
  /\ stmt.op = "SoftDeleteWorktree"
  /\ sel[1].Path \notin ListedPaths(worktrees)
  /\ worktrees # <<>>

\* the step ends the invocation with a non-zero status and a message
TerminatesWithError ==
  /\ pc' = "done"
  /\ exit'.status = "error"
  /\ exit'.msg # ""
  /\ Len(stderr') = Len(stderr) + 1
  /\ stderr'[Len(stderr')].msg = exit'.msg

\* the steps of the workflows that fail: Add finds its target in place, or
\* makes calls that create no worktree (the directory or all tiers failed);
\* Remove does not find the worktree, rejects a main worktree, or asks git
\* for a removal and tombstones nothing (the removal or the tombstone failed);
\* inline delete likewise
AddFails ==
  /\ pc = "addWithBranch"
  /\ \/ TargetPath(addArgs.repoPath, addArgs.branch) \in OnDisk
     \/ calls' # calls /\ git' = git

RemoveFails ==
  \/ pc = "select" /\ pc' = "done"
  \/ pc = "runRemove" /\ (sel[1].IsMain \/ (calls' # calls /\ wts' = wts))

InlineDeleteFails ==
  pc = "deleteWorktree" /\ (sel[1].IsMain \/ (calls' # calls /\ wts' = wts))

\* C23 as stated: every failure of a workflow step (Add: target exists,
\* directory creation, all creation tiers; Remove and inline delete: main
\* worktree rejected, worktree not found, external removal, tombstone) ends
\* the invocation with a non-zero status and a message
C23_Original ==
  [][(AddFails \/ RemoveFails \/ InlineDeleteFails) => TerminatesWithError]_vars

\* C23 (amended): every failure of a step of Add or Remove ends the invocation
\* with a non-zero status and a message; a failure of inline delete is
\* printed as "Error: ..." and root goes on to refresh the list and show the
\* selector, the invocation still running
C23_FailurePropagation ==
  [][/\ (AddFails \/ RemoveFails) => TerminatesWithError
     /\ InlineDeleteFails =>
          /\ pc' = "refresh"
          /\ exit' = Running
          /\ Len(stderr') = Len(stderr) + 1
          /\ stderr'[Len(stderr')].msg = "Error"
          /\ stderr'[Len(stderr')].name
               \in {"failed to remove worktree", "failed to update database"}]_vars

\* an invocation of wt has ended with status 0 after an inline delete failed
C23_Witness ==
  /\ cmd = "root"
  /\ pc = "done"
  /\ exit = Ok
  /\ stderr # <<>>
  /\ stderr[Len(stderr)].msg = "Error"

\* every row of the table before is in the table after, under the same id and
\* with the same path
RowsKept(T, T2) ==
  /\ Len(T2) >= Len(T)
  /\ \A i \in RowIds(T) : T2[i].path = T[i].path

\* C24: no operation removes a row of a table: the paths present in each
\* table only grow, and the id of the row of a path never changes, across
\* upsert, tombstone and resurrection
C24_SoftDeleteOnly == [][RowsKept(repos, repos') /\ RowsKept(wts, wts')]_vars

\* both tables hold a tombstoned row, and a worktree row was resurrected by
\* the last statement
C24_Witness ==
  /\ stmt.op = "UpsertWorktree"
  /\ stmt.cleared # {}
  /\ Len(wts) = 2
  /\ \E i \in RowIds(wts) : wts[i].deleted
  /\ \E i \in RowIds(repos) : repos[i].deleted

\* at most one row of the table has the path
PathsUnique(W) == \A i, j \in RowIds(W) : W[i].path = W[j].path => i = j

\* the table after upsertWorktree: a new last row if the path was absent, else
\* the one row of the path with the new owner, branch and main flag and no
\* tombstone; every other row as it was
UpsertedInPlace(W, W2, repo_id, path, branch, is_main) ==
  /\ Len(W2) = Len(W) + (IF IdsByPath(W, path) = {} THEN 1 ELSE 0)
  /\ \A i \in RowIds(W2) :
       IF i \in RowIds(W) /\ W[i].path # path THEN W2[i] = W[i]
       ELSE W2[i] = [repo_id |-> repo_id, path |-> path, branch |-> branch,
                     is_main |-> is_main, deleted |-> FALSE]

\* C25: in every reachable catalog there is at most one worktree row per
\* path, across all repositories; upsertWorktree on a path that exists
\* (tombstoned or not, owned by any repository) sets that row's owner, branch
\* and main flag to the new values and clears its tombstone, and creates no
\* second row
C25_PathUniqueness ==
  /\ PathsUnique(wts)
  /\ \A repo_id \in RowIds(repos), path \in DbPaths, branch \in {BrX, BrY},
        is_main \in BOOLEAN :
       /\ UpsertedInPlace(wts, UpsertWorktree(wts, repo_id, path, branch, is_main),
                          repo_id, path, branch, is_main)
       /\ PathsUnique(UpsertWorktree(wts, repo_id, path, branch, is_main))

\* the last upsert resurrected the row of a path in the worktrees directory of
\* /a, which the repository /b owns now
C25_Witness ==
  /\ stmt.op = "UpsertWorktree"
  /\ stmt.inserted = {}
  /\ \E i \in stmt.cleared :
       /\ wts[i].path = TargetPath(RepoA, BrX)
       /\ repos[wts[i].repo_id].path = RepoB

\* name is the final segment of path and dir is the sibling {name}.worktrees
\* of path
NamedAfter(path, name, dir) ==
  \E k \in 1..Len(path) :
    /\ path[k] = "/"
    /\ name = SubSeq(path, k + 1, Len(path))
    /\ \A i \in 1..Len(name) : name[i] # "/"
    /\ dir = SubSeq(path, 1, k) \o name
               \o <<".", "w", "o", "r", "k", "t", "r", "e", "e", "s">>

\* the non-tombstoned rows of table repos with the path
LiveRepoIds(R, path) == {i \in RowIds(R) : R[i].path = path /\ ~R[i].deleted}

\* C26: if no non-deleted repository with the main-repository path exists,
\* ensureTracked registers one, named after the final segment of the path,
\* with the sibling directory {name}.worktrees as its worktrees directory; if
\* one exists, ensureTracked leaves every catalog row as it is, that
\* repository's name, worktrees directory and last-synced timestamp included
C26_EnsureTracked ==
  [][stmt'.op = "ensureCurrentRepoInDB" =>
       /\ wts' = wts
       /\ IF LiveRepoIds(repos, stmt'.arg) # {} THEN repos' = repos
          ELSE /\ \E i \in RowIds(repos') :
                    /\ LiveRepoIds(repos', stmt'.arg) = {i}
                    /\ NamedAfter(stmt'.arg, repos'[i].name, repos'[i].worktrees_dir)
               /\ \A i \in RowIds(repos) : repos[i].path # stmt'.arg => repos'[i] = repos[i]
               /\ \A i \in RowIds(repos') : repos'[i].path = stmt'.arg \/ i \in RowIds(repos)]_vars

\* ensureTracked has left alone a repository that is in the catalog, synced in
\* this invocation, next to a tombstoned one
C26_Witness ==
  /\ stmt.op = "ensureCurrentRepoInDB"
  /\ \E i \in LiveRepoIds(repos, stmt.arg) : repos[i].last_synced_at = Now
  /\ \E i \in RowIds(repos) : repos[i].deleted

\* the records git prints for a repository that are not bare, in order: the
\* main worktree unless the repository is bare, then the linked worktrees
NonBareRecords(repoPath) ==
  (IF repoPath \in BareRepos THEN <<>> ELSE <<[path |-> repoPath, branch |-> BrMain]>>)
    \o git[repoPath]

\* C27: the parsed listing holds exactly the records that are not bare, in
\* their order, with the detached sentinel as the branch of a detached record;
\* if it is not empty, exactly one entry has the main flag, the one at index 0
C27_ListingShape ==
  calls # <<>> =>
    /\ Len(gitWorktrees) = Len(NonBareRecords(calls[1].repo))
    /\ \A i \in 1..Len(gitWorktrees) :
         /\ gitWorktrees[i].Path = NonBareRecords(calls[1].repo)[i].path
         /\ gitWorktrees[i].Branch = NonBareRecords(calls[1].repo)[i].branch
         /\ gitWorktrees[i].IsMain <=> i = 1

\* the listing of the bare repository was parsed: two linked worktrees, the
\* first of them detached
C27_Witness ==
  /\ calls # <<>>
  /\ calls[1].repo = RepoB
  /\ Len(gitWorktrees) = 2
  /\ gitWorktrees[1].Branch = Detached
  /\ gitWorktrees[2].Branch = BrX

\* the text without the white space around it, said without strings.TrimSpace
IsTrimOf(b, str) ==
  /\ b # <<>> => ~IsSpace(b[1]) /\ ~IsSpace(b[Len(b)])
  /\ \E i, j \in 0..Len(str) :
       /\ i + Len(b) + j = Len(str)
       /\ \A k \in 1..Len(str) :
            IF k <= i \/ k > i + Len(b) THEN IsSpace(str[k]) ELSE str[k] = b[k - i]

\* the editor has quit and ui.InputBranch returns
InputReturns == pc = "inputBranch" /\ m.quitting

\* what the editor does at its three terminal keys, and that it ends at no other
InputTerminals ==
  /\ [][(pc = "inputBranch" /\ ~m.quitting /\ pc' = "inputBranch" /\ m'.quitting)
          => lastMsg'.key \in {"Enter", "Tab", "Esc", "CtrlC"}]_vars
  /\ [][(InputReturns /\ lastMsg.key = "Enter")
          => /\ InputBranch(m).action = ActionNone
             /\ IsTrimOf(InputBranch(m).branch, m.input)
             /\ IF InputBranch(m).branch = <<>> THEN pc' = "done" /\ exit' = Ok
                ELSE pc' = "addWithBranch" /\ IsTrimOf(addArgs'.branch, m.input)]_vars
  /\ [][(InputReturns /\ lastMsg.key = "Tab")
          => InputBranch(m) = [branch |-> <<>>, action |-> ActionBack]]_vars
  /\ [][(InputReturns /\ lastMsg.key \in {"Esc", "CtrlC"})
          => /\ InputBranch(m) = [branch |-> <<>>, action |-> ActionNone]
             /\ pc' = "done" /\ exit' = Ok]_vars
  /\ [][InputReturns => UNCHANGED <<catalogVars, git, calls>>]_vars

\* C28 as stated: as above, and on Back the workflow is at the Selector again
C28_Original ==
  /\ InputTerminals
  /\ [][(InputReturns /\ lastMsg.key = "Tab")
          => pc' = "picker" /\ m' = newPickerModel(worktrees) /\ exit' = Running]_vars

\* C28: the editor ends at Confirm, Back or Cancel only; Confirm returns the
\* text without the white space around it, Back the Back signal and no text,
\* Cancel no text and no Back signal; nothing is written to git or the catalog;
\* on Back wt is at the Selector again with the list it had, and wt add, which
\* has no Selector, ends with status 0
C28_BranchInput ==
  /\ InputTerminals
  /\ [][(InputReturns /\ lastMsg.key = "Tab")
          => IF cmd = "root"
             THEN /\ pc' = "picker" /\ m' = newPickerModel(worktrees)
                  /\ worktrees' = worktrees /\ exit' = Running
             ELSE pc' = "done" /\ exit' = Ok]_vars

\* text with white space on both sides was typed in wt and confirmed
C28_Witness ==
  /\ InputReturns
  /\ cmd = "root"
  /\ lastMsg.key = "Enter"
  /\ m.input = <<" ", "y", " ">>
  /\ InputBranch(m).branch = <<"y">>

\* C29: whatever windows the session has and whichever is current, CreateWindow
\* succeeds and the window then exists; after KillWindow it does not exist
C29_CreateWindow ==
  /\ (calls # <<>> /\ calls[1].op = "new-window")
       => calls[1].ok /\ WindowExists(tmux, calls[1].name)
  /\ (calls # <<>> /\ calls[1].op = "kill-window" /\ calls[1].ok)
       => ~WindowExists(tmux, calls[1].name)

\* the non-tombstoned rows of a repository: path, branch and main flag
RepoView(W, repoID) ==
  {[path |-> W[i].path, branch |-> W[i].branch, is_main |-> W[i].is_main] :
     i \in {j \in RowIds(W) : W[j].repo_id = repoID /\ ~W[j].deleted}}

\* a pass of syncWorktrees for the repository of the running pass has ended
\* early in this invocation, after some of its statements
InterruptedBefore ==
  \E i \in 1..Len(stderr) :
    /\ stderr[i].msg = "warning: failed to sync"
    /\ stderr[i].name = cur[1].Name

\* C30 (crash repair): when a pass of syncWorktrees has run to its end, the
\* repository's non-tombstoned rows are those a pass that was not interrupted
\* leaves for the same listing, whatever catalog that pass starts from (the
\* empty one, the sample one): also when an earlier pass for the repository
\* ended after a prefix of its statements and left its rows half reconciled
C30_CrashRepair ==
  pc = "synced" =>
    /\ RepoView(wts, cur[1].ID)
         = RepoView(syncWorktrees(<<>>, cur[1].ID, gitWorktrees), cur[1].ID)
    /\ RepoView(wts, cur[1].ID)
         = RepoView(syncWorktrees(SampleWts, cur[1].ID, gitWorktrees), cur[1].ID)

\* the earlier pass of this invocation ended early and left the row of a
\* worktree that is gone; the later pass, run after a worktree was added, has
\* tombstoned it
C30_Witness ==
  /\ pc = "synced"
  /\ ret = "add"
  /\ InterruptedBefore
  /\ stmt.op = "SoftDeleteMissingWorktrees"
  /\ stmt.set # {}

\* git.ListWorktrees has failed: syncWorktrees returns at once
ListingFails == pc = "syncWorktrees" /\ pc' # "upsert"

\* C31: when the listing by git fails for a repository, the pass runs no
\* upsert and no tombstoning: every row of table worktrees, of every
\* repository, and every repository row, last-synced timestamp included, is as
\* it was, and the failure is reported
C31_StaleNotCorrupted ==
  [][ListingFails =>
       /\ wts' = wts
       /\ stmt' = stmt
       /\ repos' = repos
       /\ Len(stderr') = Len(stderr) + 1]_vars

\* the listing of the first repository of wt has failed: no listing was
\* obtained, no statement was run, the rows the catalog had are there
C31_Witness ==
  /\ cmd = "root"
  /\ exit = Running
  /\ Len(calls) = 1
  /\ calls[1] = Call("ListWorktrees", RepoA, <<>>)
  /\ gitWorktrees = <<>>
  /\ stmt = NoStmt
  /\ Len(stderr) = 1
  /\ stderr[1].msg = "warning: failed to sync"
  /\ \E i \in RowIds(wts) : wts[i].repo_id = 1 /\ ~wts[i].deleted /\ ~wts[i].is_main
  /\ repos[1].path = RepoA

\* table W2 is table W with the tombstone set on the non-tombstoned rows of
\* repository repoID whose path is not among keepPaths, and on no other row
TombstonedMissing(W, W2, repoID, keepPaths) ==
  /\ Len(W2) = Len(W)
  /\ \A i \in 1..Len(W) :
       IF /\ ~W[i].deleted
          /\ W[i].repo_id = repoID
          /\ \A k \in 1..Len(keepPaths) : keepPaths[k] # W[i].path
       THEN /\ W2[i].deleted
            /\ W2[i].repo_id = W[i].repo_id /\ W2[i].path = W[i].path
            /\ W2[i].branch = W[i].branch /\ W2[i].is_main = W[i].is_main
       ELSE W2[i] = W[i]

\* C32: in every catalog state, SoftDeleteMissingWorktrees(repoID, keepPaths)
\* tombstones exactly the non-tombstoned rows of repository repoID whose path
\* is not in keepPaths (all of them when keepPaths is empty) and leaves the
\* rows of other repositories, the tombstoned rows and the rows of the paths
\* kept as they are
C32_TombstoneMissingFrame ==
  \A repoID \in RowIds(repos), keepPaths \in DbPathLists :
    TombstonedMissing(wts, SoftDeleteMissingWorktrees(wts, repoID, keepPaths),
                      repoID, keepPaths)

\* the statement has tombstoned a row of its repository and left the row of
\* another repository, which is not tombstoned
C32_Witness ==
  /\ stmt.op = "SoftDeleteMissingWorktrees"
  /\ stmt.set # {}
  /\ \E i \in RowIds(wts) : ~wts[i].deleted /\ <<wts[i].repo_id>> # stmt.arg

\* the picker handles a key of the set keys
Pressed(keys) == ~m.quitting /\ lastMsg'.type = "Key" /\ lastMsg'.key \in keys

\* C33: an up key takes 1 from the cursor if it is above 0 and leaves it
\* otherwise; a down key adds 1 if the cursor is below len(filtered)-1 and
\* leaves it otherwise, an empty filtered list included; neither changes the
\* query, the filtered list, the action or ends the loop
C33_Navigation ==
  /\ [][Pressed({"Up", "CtrlP"}) =>
          m'.cursor = IF m.cursor > 0 THEN m.cursor - 1 ELSE m.cursor]_vars
  /\ [][Pressed({"Down", "CtrlN"}) =>
          m'.cursor = IF m.cursor < Len(m.filtered) - 1 THEN m.cursor + 1
                      ELSE m.cursor]_vars
  /\ [][Pressed({"Up", "CtrlP", "Down", "CtrlN"}) =>
          /\ m'.input = m.input
          /\ m'.filtered = m.filtered
          /\ m'.action = m.action
          /\ m'.action = ActionNone
          /\ ~m'.quitting
          /\ m'.worktrees = m.worktrees]_vars

\* a down key was pressed on the last of several items of a filtered list
C33_Witness ==
  /\ lastMsg.key \in {"Down", "CtrlN"}
  /\ ~m.quitting
  /\ m.input # <<>>
  /\ Len(m.filtered) > 1
  /\ m.cursor = Len(m.filtered) - 1

\* C34: Confirm ends the loop with action Switch if and only if filtered is
\* not empty; with an empty filtered list the loop goes on, the action stays
\* None and the query, the filtered list and the cursor are as they were
C34_ConfirmKey ==
  [][Pressed({"Enter"}) =>
       IF Len(m.filtered) > 0
       THEN m'.quitting /\ m'.action = ActionSwitch
       ELSE /\ ~m'.quitting
            /\ m'.action = ActionNone
            /\ m'.input = m.input
            /\ m'.filtered = m.filtered
            /\ m'.cursor = m.cursor]_vars

\* Confirm was pressed with a query that matches nothing: the loop goes on
C34_Witness ==
  /\ lastMsg.key = "Enter"
  /\ ~m.quitting
  /\ m.input # <<>>
  /\ m.filtered = <<>>
  /\ Len(m.worktrees) > 0

\* the bytes that are not Enter
Declines == {b \in KeyBytes : b # 13 /\ b # 10}

\* the workflow did nothing and returned nil
NoOp(o) == o.err = "" /\ o.calls = <<>> /\ o.git = git /\ o.wts = wts

\* C35: when the prompt is answered with anything but Enter, runRemove and
\* deleteWorktree return nil, ask git for no removal and leave every row of
\* the catalog as it is; wt remove ends with status 0
C35_DeclinedIsNoOp ==
  /\ [][(pc = "deleteWorktree" /\ ~sel[1].IsMain) =>
          \A b \in Declines :
            \A o \in AnswerOutcomes(sel[1], b) \ {"confirmFailed"} :
              NoOp(deleteWorktree(sel[1], o))]_vars
  /\ [][(pc = "runRemove" /\ ~sel[1].IsMain) =>
          \A b \in Declines, force \in BOOLEAN :
            \A o \in AnswerOutcomes(sel[1], b) \ {"confirmFailed"} :
              NoOp(runRemove(sel[1], force, o))]_vars
  /\ [][(pc = "runRemove" /\ Len(stdout') > Len(stdout)) =>
          /\ exit' = Ok
          /\ calls' = calls
          /\ git' = git
          /\ UNCHANGED catalogVars
          /\ stderr' = stderr]_vars

\* wt remove was declined at the prompt and has ended with status 0
C35_Witness ==
  /\ cmd = "remove"
  /\ pc = "done"
  /\ exit = Ok
  /\ stdout = <<Line("text", <<"Cancelled.">>)>>
  /\ \A k \in 1..Len(calls) : calls[k].op = "ListWorktrees"
  /\ \E i \in RowIds(wts) : ~wts[i].deleted /\ ~wts[i].is_main

\* messages that edit the query: a rune typed, a rune erased
QueryEdits == {RuneMsg("x"), KeyMsg("Backspace")}

\* C36: while a picker is up no message (a query edit, a navigation key,
\* confirm, create, delete, cancel) changes its list of items, which is the
\* list runRoot or runRemove holds, or writes to the catalog; wt shows the
\* picker again with another list only after it has re-read the catalog
\* following an inline delete
C36_SnapshotImmutable ==
  /\ []((pc = "picker" \/ pc = "pickSimple") =>
          /\ m.worktrees = worktrees
          /\ \A msg \in Msgs \cup QueryEdits : Update(m, msg).worktrees = worktrees)
  /\ [][(pc = "picker" \/ pc = "pickSimple") =>
          /\ UNCHANGED catalogVars
          /\ git' = git
          /\ (pc' # "done" => worktrees' = worktrees)]_vars
  /\ [][(pc' = "picker" /\ worktrees # <<>> /\ worktrees' # worktrees) => pc = "refresh"]_vars

\* after an inline delete the picker of wt is up with a list that has not the
\* worktree deleted, and the cursor was moved in it
C36_Witness ==
  /\ cmd = "root"
  /\ pc = "picker"
  /\ \E k \in 1..Len(calls) : calls[k].op = "RemoveWorktree"
  /\ \E i \in RowIds(wts) : wts[i].deleted
  /\ m.cursor > 0
  /\ m.worktrees = worktrees

\* the editor was confirmed with text that is empty or white space only
BlankConfirmed ==
  /\ InputReturns
  /\ m.action = ActionSwitch
  /\ \A i \in 1..Len(m.input) : IsSpace(m.input[i])

\* C37: when the branch editor is confirmed with text that is empty or all
\* white space, ui.InputBranch returns what it returns after Cancel, and the
\* add workflow ends with status 0: no Back to the picker, no worktree add is
\* set out on, git and its directories, the catalog and the output stay as
\* they are
C37_BlankBranchIsCancel ==
  [][BlankConfirmed =>
       /\ InputBranch(m) = InputBranch(Quit([m EXCEPT !.quitting = FALSE], ActionNone))
       /\ InputBranch(m) = [branch |-> <<>>, action |-> ActionNone]
       /\ pc' = "done"
       /\ exit' = Ok
       /\ addArgs' = addArgs
       /\ UNCHANGED <<catalogVars, git, calls, stdout, stderr>>]_vars

\* two spaces were typed and confirmed with Enter
C37_Witness ==
  /\ BlankConfirmed
  /\ lastMsg.key = "Enter"
  /\ m.input = <<" ", " ">>

\* ListAllWorktrees has a worktree with this path
Lists(path) ==
  \E k \in 1..Len(ListAllWorktrees(wts, repos)) : ListAllWorktrees(wts, repos)[k].Path = path

\* the statement of C38 as written: in every state of the catalog
\* GetWorktreeByPath returns a worktree for a path exactly if ListAllWorktrees
\* has a worktree with that path
C38_Original ==
  \A path \in DbPaths : GetWorktreeByPath(wts, repos, path) # {} <=> Lists(path)

\* C38: in every state of the catalog ListAllWorktrees has a worktree with a
\* path exactly if GetWorktreeByPath returns a worktree for it and that
\* worktree's repository is not tombstoned; a live worktree of a tombstoned
\* repository is returned by GetWorktreeByPath and is not listed
C38_ReadAgreement ==
  \A path \in DbPaths :
    /\ Lists(path) <=> \E w \in GetWorktreeByPath(wts, repos, path) : ~repos[w.RepoID].deleted
    /\ Lists(path) => GetWorktreeByPath(wts, repos, path) # {}
    /\ (\E i \in RowIds(wts) :
          wts[i].path = path /\ ~wts[i].deleted /\ repos[wts[i].repo_id].deleted)
         => GetWorktreeByPath(wts, repos, path) # {} /\ ~Lists(path)

\* one live worktree of a live repository, read by both, and one live worktree
\* of a tombstoned repository, read by GetWorktreeByPath only
C38_Witness ==
  /\ \E path \in DbPaths : Lists(path) /\ GetWorktreeByPath(wts, repos, path) # {}
  /\ \E path \in DbPaths : ~Lists(path) /\ GetWorktreeByPath(wts, repos, path) # {}
  /\ \E i \in RowIds(repos) : repos[i].deleted

\* the places in the list held by the worktrees of a repository
RowsOf(id) == {k \in 1..Len(worktrees) : worktrees[k].RepoID = id}

\* the places in the list held by the worktrees of repositories with a name
RowsNamed(name) == {k \in 1..Len(worktrees) : worktrees[k].RepoName = name}

Contiguous(S) == \A i, j \in S : \A k \in i..j : k \in S

\* the first of the places is held by a main worktree
MainLeads(S) == S # {} => \E i \in S : worktrees[i].IsMain /\ \A j \in S : i <= j

\* another repository of the same name has worktrees in the list
NameShared(id) ==
  \E other \in RowIds(repos) \ {id} : repos[other].name = repos[id].name /\ RowsOf(other) # {}

Directives == SelectSeq(stdout, LAMBDA l : l.kind = "cd")

\* the picker of wt is ended by a key with Switch on a worktree, whose
\* directive (and the on_enter command of its repository) is what is printed
SwitchPrints ==
  /\ pc = "picker"
  /\ \E msg \in Msgs :
       /\ Update(m, msg).quitting
       /\ PickerResult(Update(m, msg)).Action = ActionSwitch
       /\ PickerResult(Update(m, msg)).Worktree # NoWorktree
       /\ stdout' = outputWorktreeSwitch(PickerResult(Update(m, msg)).Worktree[1].Path,
                                         PickerResult(Update(m, msg)).Worktree[1].RepoPath)

\* the re-sync of the Add workflow has returned without error after git
\* created the worktree, and the directive for the new worktree is printed
AddPrints ==
  /\ pc = "synced"
  /\ ret = "add"
  /\ Created
  /\ ReSyncs # {}
  /\ stdout' = <<Line("cd", TargetPath(addArgs.repoPath, addArgs.branch))>>

\* C40: an invocation of wt prints at most one directory-change directive; it
\* prints it in its last step, with status 0, and that step is either the end
\* of the picker with Switch on a worktree or the end of an Add workflow whose
\* git worktree add and re-sync both succeeded; the steps of Cancel, Back, an
\* inline delete and the refresh after it print nothing, and an invocation
\* that ends with an error has printed nothing
C40_OneDirective ==
  /\ [](cmd = "root" => Len(Directives) <= 1)
  /\ []((cmd = "root" /\ stdout # <<>>) => (pc = "done" /\ exit = Ok /\ Len(Directives) = 1))
  /\ [][(cmd = "root" /\ pc # "done" /\ stdout' # stdout)
          => /\ stdout = <<>>
             /\ pc' = "done"
             /\ SwitchPrints \/ AddPrints]_vars
  /\ [][(cmd = "root" /\ pc \in {"inputBranch", "deleteWorktree", "refresh"})
          => stdout' = stdout]_vars

\* wt has ended: after an inline delete that removed a worktree, a worktree
\* was chosen in the picker and its directive, the only one, is printed
C40_Witness ==
  /\ cmd = "root"
  /\ pc = "done"
  /\ exit = Ok
  /\ Len(Directives) = 1
  /\ AddTiers = <<>>
  /\ \E k \in 1..Len(calls) : calls[k].op = "RemoveWorktree"

====
